---- MODULE Spec2Model ----
(***************************************************************************)
(* A model of google-takeout-exif-applier: the sidecar resolver            *)
(* (Processor.checkSupplementalData), the metadata merge (mergeMetadata,   *)
(* ParseJSON), the applier (ApplyToFile) and the worker-pool pipeline      *)
(* (Processor.Process, processWorker, processMediaFile).                   *)
(*                                                                         *)
(* Go strings are modelled as sequences of one-character strings, so that  *)
(* every path operation of the code (Ext, TrimSuffix, LastIndex, the       *)
(* regular expression \(\d+\), Replace, concatenation) is computed on the  *)
(* characters as the code computes it.                                     *)
(***************************************************************************)
EXTENDS Integers, Sequences, FiniteSets, TLC

VARIABLES
    \* One call of checkSupplementalData: the build's operating system, the
    \* argument, the file system it probes, and what the call returned.
    rOs, rMedia, rFiles, rDirs, rErrs, rPc, rOut

rvars == <<rOs, rMedia, rFiles, rDirs, rErrs, rPc, rOut>>

VARIABLES
    \* One call of mergeMetadata: its two arguments and what it returned.
    mPrimary, mSupplemental, mPc, mOut,
    \* The GPS arguments the applier builds from the merged record.
    mGps

mvars == <<mPrimary, mSupplemental, mPc, mOut, mGps>>

VARIABLES
    \* One call of ParseJSON: the build's operating system, what the primary
    \* sidecar and the two supplemental files of its directory hold, and what
    \* the call returned.
    jOs, jLayers, jPc, jOut

jvars == <<jOs, jLayers, jPc, jOut>>

others == <<rvars, mvars, jvars>>

VARIABLES
    \* The command (func main): the -dir argument, where main is, and the
    \* exit status of the process.
    dirArg, cliPc, exitCode,
    \* The environment of a run: the build's operating system, the external
    \* tools on the PATH, what is wrong with which entry, and the names in
    \* the root directory at the start.
    goos, tools, faults, dirNames,
    \* The regular files under the root, and what each media file holds.
    disk, media,
    \* The Processor.
    dryRun, workerCount, stats, deletedFiles,
    \* Process on the main goroutine: where it is, the walk, what it returns.
    mainPc, walkList, walkIdx, filesToProcess, ret,
    \* The sender goroutine and the job channel.
    sendPc, sendIdx, jobChan, closed,
    \* Each worker: where it is, its job, the sidecar and the record it has,
    \* and what the call it made last (ParseJSON, ApplyToFile) returned.
    wpc, job, wJson, wMeta, wRes,
    \* The number of the run, and for the properties: the media paths in
    \* the order they were received and their units ended, every successful
    \* ApplyToFile, every removed sidecar.
    run, started, finished, applied, consumed

cliv == <<dirArg, cliPc, exitCode>>
envv == <<goos, tools, faults, dirNames, dryRun, workerCount, run>>
fsv == <<disk, media>>
procv == <<stats, deletedFiles>>
mainv == <<mainPc, walkList, walkIdx, filesToProcess>>
sendv == <<sendPc, sendIdx>>
chanv == <<jobChan, closed>>
workv == <<wpc, job, wJson, wMeta, wRes>>
histv == <<started, finished, applied, consumed>>

pvars == <<cliv, envv, fsv, procv, mainv, ret, sendv, chanv, workv, histv>>

vars == <<rvars, mvars, jvars, pvars>>

\* ------------------------------------------------------------------------
\* Bounds of the model
\* ------------------------------------------------------------------------

\* Most paths beside a media path, in one resolver input, that are there (a
\* regular file, a directory, or a path whose os.Stat fails otherwise).
MaxNearby == 3
\* Most fields that are set (non-empty, non-zero) in one argument of a merge.
MaxFields == 2
\* Most entries of the root directory of a small input tree.
MaxFiles == 3
\* Most faults in one input tree.
MaxFaults == 1
\* Most processors of the machine (runtime.NumCPU).
MaxCPU == 2
\* Most runs of the program on one tree.
MaxRuns == 2

\* ------------------------------------------------------------------------
\* Strings (package strings, package path/filepath)
\* ------------------------------------------------------------------------

SetMax(S) == CHOOSE x \in S : \A y \in S : y <= x
SetMin(S) == CHOOSE x \in S : \A y \in S : x <= y

Digits == {"0", "1", "2", "3", "4", "5", "6", "7", "8", "9"}

\* os.IsPathSeparator: '/' everywhere, and '\' too on Windows.
IsPathSeparator(os, c) == IF os = "windows" THEN c \in {"/", "\\"} ELSE c = "/"

\* strings.HasSuffix
HasSuffix(s, suf) ==
    /\ Len(suf) <= Len(s)
    /\ SubSeq(s, Len(s) - Len(suf) + 1, Len(s)) = suf

\* strings.TrimSuffix
TrimSuffix(s, suf) ==
    IF HasSuffix(s, suf) THEN SubSeq(s, 1, Len(s) - Len(suf)) ELSE s

\* strings.LastIndex for a one-byte separator, 1-based; 0 stands for Go's -1.
LastIndex(s, c) ==
    LET I == {i \in 1..Len(s) : s[i] = c}
    IN  IF I = {} THEN 0 ELSE SetMax(I)

\* filepath.Ext: the suffix from the last dot of the last path element.
Ext(os, path) ==
    LET I == {i \in 1..Len(path) :
                 /\ path[i] = "."
                 /\ \A j \in i..Len(path) : ~IsPathSeparator(os, path[j])}
    IN  IF I = {} THEN <<>> ELSE SubSeq(path, SetMax(I), Len(path))

\* Where a match of the regular expression \(\d+\) that starts at i ends
\* (0: no match starts at i).
MatchEndAt(s, i) ==
    IF s[i] # "("
    THEN 0
    ELSE LET E == {j \in (i + 2)..Len(s) :
                      /\ s[j] = ")"
                      /\ \A k \in (i + 1)..(j - 1) : s[k] \in Digits}
         IN  IF E = {} THEN 0 ELSE SetMin(E)

\* regexp.FindAllString(s, -1) for \(\d+\): the leftmost non-overlapping
\* matches, scanning from position i.
RECURSIVE FindAllFrom(_, _)
FindAllFrom(s, i) ==
    IF i > Len(s)
    THEN <<>>
    ELSE LET e == MatchEndAt(s, i)
         IN  IF e = 0
             THEN FindAllFrom(s, i + 1)
             ELSE <<SubSeq(s, i, e)>> \o FindAllFrom(s, e + 1)

FindAllString(s) == FindAllFrom(s, 1)

\* strings.Replace(s, old, "", 1): s without the first occurrence of old.
RemoveFirst(s, old) ==
    LET I == {i \in 1..(Len(s) - Len(old) + 1) :
                 SubSeq(s, i, i + Len(old) - 1) = old}
    IN  IF I = {} \/ old = <<>>
        THEN s
        ELSE LET i == SetMin(I)
             IN  SubSeq(s, 1, i - 1) \o SubSeq(s, i + Len(old), Len(s))

\* ------------------------------------------------------------------------
\* Sidecar resolution (Processor.checkSupplementalData)
\* ------------------------------------------------------------------------

sJson == <<".", "j", "s", "o", "n">>

sSupplemental ==
    <<".", "s", "u", "p", "p", "l", "e", "m", "e", "n", "t", "a", "l",
      "-", "m", "e", "t", "a", "d", "a", "t", "a">>

\* A variant of jsonSuffixes that lists the suffixes from the shortest to the
\* longest.
jsonSuffixesShortestFirst ==
    <<<<>>>> \o [i \in 1..(Len(sSupplemental) - 1) |->
                    SubSeq(sSupplemental, 1, i + 1)]

\* The array jsonSuffixes, in the order of the source: the empty suffix,
\* then ".supplemental-metadata" and each shorter prefix of it down to ".s".
jsonSuffixes ==
    <<<<>>>> \o [i \in 1..(Len(sSupplemental) - 1) |->
                    SubSeq(sSupplemental, 1, Len(sSupplemental) + 1 - i)]

\* mediaPath[idx+1:], computed only when a backslash was found.
FileNameOf(mediaPath) ==
    SubSeq(mediaPath, LastIndex(mediaPath, "\\") + 1, Len(mediaPath))

\* matches: nil unless the path holds a backslash.
DupMatches(mediaPath) ==
    IF LastIndex(mediaPath, "\\") # 0
    THEN FindAllString(FileNameOf(mediaPath))
    ELSE <<>>

\* match: the duplicate marker, "" unless exactly one was found.
DupMarker(mediaPath) ==
    LET matches == DupMatches(mediaPath)
    IN  IF Len(matches) = 1 THEN matches[1] ELSE <<>>

\* newMediaPath of the first loop.
NormalizedPath(mediaPath) ==
    IF Len(DupMatches(mediaPath)) = 1
    THEN SubSeq(mediaPath, 1, LastIndex(mediaPath, "\\"))
            \o RemoveFirst(FileNameOf(mediaPath), DupMarker(mediaPath))
    ELSE mediaPath

\* Step 1: the media extension replaced by .json.
SwapCandidate(os, mediaPath) ==
    TrimSuffix(mediaPath, Ext(os, mediaPath)) \o sJson

\* A variant of the first loop that forgets to put the marker back.
MarkerCandidatesNoMarker(mediaPath) ==
    LET newMediaPath == NormalizedPath(mediaPath)
    IN  [i \in 1..Len(jsonSuffixes) |->
            newMediaPath \o jsonSuffixes[i] \o sJson]

\* Step 3: the first loop over jsonSuffixes.
MarkerCandidates(mediaPath) ==
    LET newMediaPath == NormalizedPath(mediaPath)
        match        == DupMarker(mediaPath)
    IN  [i \in 1..Len(jsonSuffixes) |->
            newMediaPath \o jsonSuffixes[i] \o match \o sJson]

\* Step 4: the second loop over jsonSuffixes.
PlainCandidates(mediaPath) ==
    [i \in 1..Len(jsonSuffixes) |-> mediaPath \o jsonSuffixes[i] \o sJson]

\* A variant that probes the extension-swapped path after the two loops.
CandidatesSwapLast(os, mediaPath) ==
    MarkerCandidates(mediaPath) \o PlainCandidates(mediaPath)
        \o <<TrimSuffix(mediaPath, Ext(os, mediaPath)) \o sJson>>

\* A variant that runs the loop over the original path before the loop over
\* the normalized path.
CandidatesPlainFirst(os, mediaPath) ==
    <<SwapCandidate(os, mediaPath)>>
        \o PlainCandidates(mediaPath) \o MarkerCandidates(mediaPath)

\* Every path the function may hand to os.Stat, in the order of the calls.
Candidates(os, mediaPath) ==
    <<SwapCandidate(os, mediaPath)>>
        \o MarkerCandidates(mediaPath) \o PlainCandidates(mediaPath)

\* os.Stat on a file system given by its existing regular files, its
\* existing directories and the paths whose lookup fails otherwise.
StatErr(files, dirs, errs, path) ==
    IF path \in errs THEN "other"
    ELSE IF path \in files \cup dirs THEN "nil"
    ELSE "notexist"

\* A variant whose final return drops the error of the last probe.
checkSupplementalDataNilAtEnd(os, files, dirs, errs, mediaPath) ==
    LET c  == Candidates(os, mediaPath)
        OK == {i \in 1..Len(c) : StatErr(files, dirs, errs, c[i]) = "nil"}
        n  == IF OK = {} THEN Len(c) ELSE SetMin(OK)
    IN  [probes   |-> SubSeq(c, 1, n),
         jsonPath |-> c[n],
         err      |-> "nil",
         isDir    |-> c[n] \in dirs,
         index    |-> IF OK = {} THEN 0 ELSE n]

\* The function's result: the paths it probed in order, the (info, jsonPath,
\* err) it returns, and the step that matched (0: none).
checkSupplementalData(os, files, dirs, errs, mediaPath) ==
    LET c  == Candidates(os, mediaPath)
        OK == {i \in 1..Len(c) : StatErr(files, dirs, errs, c[i]) = "nil"}
        n  == IF OK = {} THEN Len(c) ELSE SetMin(OK)
    IN  [probes   |-> SubSeq(c, 1, n),
         jsonPath |-> c[n],
         err      |-> StatErr(files, dirs, errs, c[n]),
         isDir    |-> c[n] \in dirs,
         index    |-> IF OK = {} THEN 0 ELSE n]

\* ------------------------------------------------------------------------
\* Metadata records (type Metadata) and mergeMetadata
\* ------------------------------------------------------------------------

\* The zero value of GeoData / GeoDataAlt and of Metadata. Timestamps are
\* strings of characters; float64 coordinates are modelled by integers.
ZeroGeo ==
    [Latitude |-> 0, Longitude |-> 0, Altitude |-> 0,
     LatitudeSpan |-> 0, LongitudeSpan |-> 0]

ZeroMetadata ==
    [Title |-> "", Description |-> "", ImageViews |-> 0,
     CreationTime |-> <<>>, ModificationTime |-> <<>>,
     PhotoTakenTime |-> <<>>, GeoData |-> ZeroGeo, GeoDataAlt |-> ZeroGeo]

\* A variant of mergeMetadata that overwrites the primary's title whenever
\* the supplemental record has one.
mergeMetadataTitleOverwritten(primary, supplemental) ==
    LET m1 == IF supplemental.Title # ""
              THEN [primary EXCEPT !.Title = supplemental.Title] ELSE primary
        m2 == IF m1.Description = "" /\ supplemental.Description # ""
              THEN [m1 EXCEPT !.Description = supplemental.Description] ELSE m1
        m3 == IF m2.ImageViews = 0 /\ supplemental.ImageViews > 0
              THEN [m2 EXCEPT !.ImageViews = supplemental.ImageViews] ELSE m2
        m4 == IF m3.CreationTime = <<>> /\ supplemental.CreationTime # <<>>
              THEN [m3 EXCEPT !.CreationTime = supplemental.CreationTime] ELSE m3
        m5 == IF m4.PhotoTakenTime = <<>> /\ supplemental.PhotoTakenTime # <<>>
              THEN [m4 EXCEPT !.PhotoTakenTime = supplemental.PhotoTakenTime] ELSE m4
        m6 == IF /\ m5.GeoData.Latitude = 0 /\ m5.GeoData.Longitude = 0
                 /\ (supplemental.GeoData.Latitude # 0 \/ supplemental.GeoData.Longitude # 0)
              THEN [m5 EXCEPT !.GeoData = supplemental.GeoData] ELSE m5
        m7 == IF /\ m6.GeoDataAlt.Latitude = 0 /\ m6.GeoDataAlt.Longitude = 0
                 /\ (supplemental.GeoDataAlt.Latitude # 0 \/ supplemental.GeoDataAlt.Longitude # 0)
              THEN [m6 EXCEPT !.GeoDataAlt = supplemental.GeoDataAlt] ELSE m6
    IN  m7

\* mergeMetadata: the statements of the function in their order, each on the
\* record left by the one before.
mergeMetadata(primary, supplemental) ==
    LET m1 == IF primary.Title = "" /\ supplemental.Title # ""
              THEN [primary EXCEPT !.Title = supplemental.Title] ELSE primary
        m2 == IF m1.Description = "" /\ supplemental.Description # ""
              THEN [m1 EXCEPT !.Description = supplemental.Description] ELSE m1
        m3 == IF m2.ImageViews = 0 /\ supplemental.ImageViews > 0
              THEN [m2 EXCEPT !.ImageViews = supplemental.ImageViews] ELSE m2
        m4 == IF m3.CreationTime = <<>> /\ supplemental.CreationTime # <<>>
              THEN [m3 EXCEPT !.CreationTime = supplemental.CreationTime] ELSE m3
        m5 == IF m4.PhotoTakenTime = <<>> /\ supplemental.PhotoTakenTime # <<>>
              THEN [m4 EXCEPT !.PhotoTakenTime = supplemental.PhotoTakenTime] ELSE m4
        m6 == IF /\ m5.GeoData.Latitude = 0 /\ m5.GeoData.Longitude = 0
                 /\ (supplemental.GeoData.Latitude # 0 \/ supplemental.GeoData.Longitude # 0)
              THEN [m5 EXCEPT !.GeoData = supplemental.GeoData] ELSE m5
        m7 == IF /\ m6.GeoDataAlt.Latitude = 0 /\ m6.GeoDataAlt.Longitude = 0
                 /\ (supplemental.GeoDataAlt.Latitude # 0 \/ supplemental.GeoDataAlt.Longitude # 0)
              THEN [m6 EXCEPT !.GeoDataAlt = supplemental.GeoDataAlt] ELSE m6
    IN  m7

\* ------------------------------------------------------------------------
\* Coordinates (Metadata.GetLatitude, GetLongitude, GetAltitude)
\* ------------------------------------------------------------------------

\* GetLatitude: (value, ok), GeoData's latitude when it is not zero, else
\* GeoDataAlt's when it is not zero.
GetLatitude(m) ==
    IF m.GeoData.Latitude # 0
    THEN [value |-> m.GeoData.Latitude, ok |-> TRUE]
    ELSE IF m.GeoDataAlt.Latitude # 0
    THEN [value |-> m.GeoDataAlt.Latitude, ok |-> TRUE]
    ELSE [value |-> 0, ok |-> FALSE]

GetLongitude(m) ==
    IF m.GeoData.Longitude # 0
    THEN [value |-> m.GeoData.Longitude, ok |-> TRUE]
    ELSE IF m.GeoDataAlt.Longitude # 0
    THEN [value |-> m.GeoDataAlt.Longitude, ok |-> TRUE]
    ELSE [value |-> 0, ok |-> FALSE]

GetAltitude(m) ==
    IF m.GeoData.Altitude # 0
    THEN [value |-> m.GeoData.Altitude, ok |-> TRUE]
    ELSE IF m.GeoDataAlt.Altitude # 0
    THEN [value |-> m.GeoDataAlt.Altitude, ok |-> TRUE]
    ELSE [value |-> 0, ok |-> FALSE]

\* No -GPSLatitude, -GPSLongitude or -GPSAltitude argument.
NoGps == [written |-> FALSE, lat |-> 0, lon |-> 0, hasAlt |-> FALSE, alt |-> 0]

\* The GPS arguments of the exiftool call: latitude and longitude when both
\* getters report a value, and then the altitude when its getter does.
GpsArguments(meta) ==
    IF GetLatitude(meta).ok /\ GetLongitude(meta).ok
    THEN [written |-> TRUE,
          lat     |-> GetLatitude(meta).value,
          lon     |-> GetLongitude(meta).value,
          hasAlt  |-> GetAltitude(meta).ok,
          alt     |-> GetAltitude(meta).value]
    ELSE NoGps

\* ------------------------------------------------------------------------
\* Timestamps (parseTimestamp, Metadata.GetPhotoTime)
\* ------------------------------------------------------------------------

DigitValue(c) ==
    CASE c = "0" -> 0 [] c = "1" -> 1 [] c = "2" -> 2 [] c = "3" -> 3
      [] c = "4" -> 4 [] c = "5" -> 5 [] c = "6" -> 6 [] c = "7" -> 7
      [] c = "8" -> 8 [] c = "9" -> 9

\* The value of a string of decimal digits.
RECURSIVE DecimalValue(_)
DecimalValue(ds) ==
    IF ds = <<>>
    THEN 0
    ELSE 10 * DecimalValue(SubSeq(ds, 1, Len(ds) - 1)) + DigitValue(ds[Len(ds)])

\* unicode.IsSpace as package fmt knows it (isSpace, the table space): the
\* runes SkipSpace steps over. A character of a string is one rune; the
\* runes that have no escape in a string are written by their code point.
SpaceRunes ==
    {"\t", "\n", "U+000B", "\f", "\r", " ", "U+0085", "U+00A0", "U+1680",
     "U+2000", "U+2001", "U+2002", "U+2003", "U+2004", "U+2005", "U+2006",
     "U+2007", "U+2008", "U+2009", "U+200A", "U+2028", "U+2029", "U+202F",
     "U+205F", "U+3000"}

\* ds without its leading zeros.
RECURSIVE StripZeros(_)
StripZeros(ds) ==
    IF ds # <<>> /\ ds[1] = "0" THEN StripZeros(Tail(ds)) ELSE ds

\* The digits of 2^63 - 1, the greatest int64.
MaxInt64Digits ==
    <<"9", "2", "2", "3", "3", "7", "2", "0", "3", "6", "8", "5", "4", "7",
      "7", "5", "8", "0", "7">>

\* The magnitude written by the digits a is at most the one written by b.
AtMost(a, b) ==
    LET x == StripZeros(a)
        y == StripZeros(b)
    IN  \/ Len(x) < Len(y)
        \/ x = y
        \/ /\ Len(x) = Len(y)
           /\ \E i \in 1..Len(x) :
                 /\ DigitValue(x[i]) < DigitValue(y[i])
                 /\ \A j \in 1..(i - 1) : x[j] = y[j]

\* strconv.ParseInt(tok, 10, 64) accepts the digits ds under the sign: the
\* value is within -2^63 .. 2^63 - 1.
InInt64(negative, ds) ==
    \/ AtMost(ds, MaxInt64Digits)
    \/ /\ negative
       /\ StripZeros(ds) =
             [MaxInt64Digits EXCEPT ![Len(MaxInt64Digits)] = "8"]

\* fmt.Sscanf(ts, "%d", &unixTime): SkipSpace steps over the leading space
\* runes and fails on a newline among them, a sign is accepted, then the
\* longest run of digits is read and what follows it is left unread; with no
\* digit there, or with a value outside int64, the scan fails.
parseTimestamp(ts) ==
    LET start   == IF \E i \in 1..Len(ts) : ts[i] \notin SpaceRunes \ {"\n"}
                   THEN SetMin({i \in 1..Len(ts) :
                                   ts[i] \notin SpaceRunes \ {"\n"}})
                   ELSE Len(ts) + 1
        newline == start <= Len(ts) /\ ts[start] = "\n"
        signed  == start <= Len(ts) /\ ts[start] \in {"+", "-"}
        first   == IF signed THEN start + 1 ELSE start
        stop    == IF \E i \in first..Len(ts) : ts[i] \notin Digits
                   THEN SetMin({i \in first..Len(ts) : ts[i] \notin Digits})
                   ELSE Len(ts) + 1
        digits  == SubSeq(ts, first, stop - 1)
        minus   == signed /\ ts[start] = "-"
    IN  IF newline \/ stop = first \/ ~InInt64(minus, digits)
        THEN [ok |-> FALSE, time |-> 0]
        ELSE [ok |-> TRUE,
              time |-> IF minus THEN 0 - DecimalValue(digits)
                       ELSE DecimalValue(digits)]

\* A variant of GetPhotoTime that falls back to the epoch.
GetPhotoTimeEpochWhenAbsent(m) ==
    IF m.PhotoTakenTime # <<>> THEN parseTimestamp(m.PhotoTakenTime)
    ELSE IF m.CreationTime # <<>> THEN parseTimestamp(m.CreationTime)
    ELSE [ok |-> TRUE, time |-> 0]

\* Metadata.GetPhotoTime: the photo-taken time, else the creation time.
GetPhotoTime(m) ==
    IF m.PhotoTakenTime # <<>> THEN parseTimestamp(m.PhotoTakenTime)
    ELSE IF m.CreationTime # <<>> THEN parseTimestamp(m.CreationTime)
    ELSE [ok |-> FALSE, time |-> 0]

\* The date part of photoTime.Format("2006:01:02 15:04:05"), in UTC: the day
\* the instant falls on, counted from the epoch.
SecondsPerDay == 86400
DateOf(time) == time \div SecondsPerDay

\* ------------------------------------------------------------------------
\* Paths of package path/filepath, for the paths filepath.Walk builds from
\* an absolute root that is not a volume root
\* ------------------------------------------------------------------------

Separator(os) == IF os = "windows" THEN "\\" ELSE "/"

LastSeparator(os, path) ==
    LET I == {i \in 1..Len(path) : IsPathSeparator(os, path[i])}
    IN  IF I = {} THEN 0 ELSE SetMax(I)

\* filepath.Dir
Dir(os, path) ==
    LET i == LastSeparator(os, path)
    IN  IF i = 0 THEN <<".">>
        ELSE IF i = 1 THEN <<path[1]>>
        ELSE SubSeq(path, 1, i - 1)

\* filepath.Base
Base(os, path) == SubSeq(path, LastSeparator(os, path) + 1, Len(path))

\* filepath.Join(dir, name)
Join(os, dir, name) ==
    IF dir # <<>> /\ IsPathSeparator(os, dir[Len(dir)])
    THEN dir \o name
    ELSE dir \o <<Separator(os)>> \o name

UpperLetters ==
    <<"A", "B", "C", "D", "E", "F", "G", "H", "I", "J", "K", "L", "M",
      "N", "O", "P", "Q", "R", "S", "T", "U", "V", "W", "X", "Y", "Z">>
LowerLetters ==
    <<"a", "b", "c", "d", "e", "f", "g", "h", "i", "j", "k", "l", "m",
      "n", "o", "p", "q", "r", "s", "t", "u", "v", "w", "x", "y", "z">>

\* strings.ToLower
ToLower(s) ==
    [i \in 1..Len(s) |->
        IF \E k \in 1..Len(UpperLetters) : UpperLetters[k] = s[i]
        THEN LowerLetters[CHOOSE k \in 1..Len(UpperLetters) : UpperLetters[k] = s[i]]
        ELSE s[i]]

\* ------------------------------------------------------------------------
\* Supported media (isSupportedMediaFile, isImageFile, isVideoFile)
\* ------------------------------------------------------------------------

\* imageExts of package metadata.
AppliedImageExts ==
    { <<".", "j", "p", "g">>, <<".", "j", "p", "e", "g">>, <<".", "p", "n", "g">>,
      <<".", "g", "i", "f">>, <<".", "b", "m", "p">>, <<".", "w", "e", "b", "p">>,
      <<".", "t", "i", "f", "f">>, <<".", "t", "i", "f">>,
      <<".", "h", "e", "i", "c">>, <<".", "h", "e", "i", "f">> }

\* imageExts of package processor: the same and .dng.
ScannedImageExts == AppliedImageExts \cup { <<".", "d", "n", "g">> }

\* videoExts, the same in both packages.
VideoExts ==
    { <<".", "m", "p", "4">>, <<".", "a", "v", "i">>, <<".", "m", "o", "v">>,
      <<".", "m", "k", "v">>, <<".", "f", "l", "v">>, <<".", "w", "m", "v">>,
      <<".", "w", "e", "b", "m">>, <<".", "m", "4", "v">>, <<".", "3", "g", "p">>,
      <<".", "o", "g", "v">>, <<".", "t", "s">>, <<".", "m", "t", "s">>,
      <<".", "m", "2", "t", "s">> }

isSupportedMediaFile(os, path) ==
    ToLower(Ext(os, path)) \in ScannedImageExts \cup VideoExts

isImageFile(os, path) == ToLower(Ext(os, path)) \in AppliedImageExts

isVideoFile(os, path) == ToLower(Ext(os, path)) \in VideoExts

\* ------------------------------------------------------------------------
\* Sidecar files and ParseJSON
\* ------------------------------------------------------------------------

\* The bytes of a JSON file: whether they start with a UTF-8 byte-order
\* mark, whether what follows is well-formed JSON of the expected shape, and
\* the record it then decodes to.
NoBytes == [bom |-> FALSE, syntaxOK |-> FALSE, meta |-> ZeroMetadata]

\* data[3:] when the three bytes of the mark are there.
StripBOM(data) == [data EXCEPT !.bom = FALSE]

\* A variant of json.Unmarshal that takes what it can of malformed bytes.
UnmarshalLenient(data) ==
    IF data.bom
    THEN [ok |-> FALSE, meta |-> ZeroMetadata]
    ELSE [ok |-> TRUE, meta |-> data.meta]

\* json.Unmarshal: a byte-order mark is not JSON.
Unmarshal(data) ==
    IF data.bom \/ ~data.syntaxOK
    THEN [ok |-> FALSE, meta |-> ZeroMetadata]
    ELSE [ok |-> TRUE, meta |-> data.meta]

\* parseSupplementalJSON on the file system fsys = [files, dirs, errs,
\* content]: os.ReadFile, the mark removed, json.Unmarshal.
parseSupplementalJSON(fsys, jsonPath) ==
    IF jsonPath \notin fsys.files \/ jsonPath \in fsys.errs
    THEN [ok |-> FALSE, meta |-> ZeroMetadata]
    ELSE Unmarshal(StripBOM(fsys.content[jsonPath]))

sGlobalName ==
    <<"s", "u", "p", "p", "l", "e", "m", "e", "n", "t", "a", "l",
      "-", "m", "e", "t", "a", "d", "a", "t", "a", ".", "j", "s", "o", "n">>

\* supplementalPath and perFileSupplementalPath of ParseJSON.
GlobalSupplementalPath(os, jsonPath) == Join(os, Dir(os, jsonPath), sGlobalName)

PerFileSupplementalPath(os, jsonPath) ==
    Join(os, Dir(os, jsonPath),
         TrimSuffix(Base(os, jsonPath), sJson) \o sSupplemental \o sJson)

\* meta after one "if os.Stat(path) == nil { parse; if err == nil { merge } }".
MergedWith(fsys, meta, path) ==
    IF StatErr(fsys.files, fsys.dirs, fsys.errs, path) = "nil"
          /\ parseSupplementalJSON(fsys, path).ok
    THEN mergeMetadata(meta, parseSupplementalJSON(fsys, path).meta)
    ELSE meta

\* A variant of ParseJSON that merges the per-file supplemental file before
\* the folder's global one.
ParseJSONPerFileFirst(os, fsys, jsonPath) ==
    LET primary == parseSupplementalJSON(fsys, jsonPath)
    IN  IF ~primary.ok
        THEN primary
        ELSE [ok   |-> TRUE,
              meta |-> MergedWith(fsys,
                          MergedWith(fsys, primary.meta,
                                     PerFileSupplementalPath(os, jsonPath)),
                          GlobalSupplementalPath(os, jsonPath))]

\* ParseJSON: the primary file, then the folder's global supplemental file,
\* then the per-file supplemental file.
ParseJSON(os, fsys, jsonPath) ==
    LET primary == parseSupplementalJSON(fsys, jsonPath)
    IN  IF ~primary.ok
        THEN primary
        ELSE [ok   |-> TRUE,
              meta |-> MergedWith(fsys,
                          MergedWith(fsys, primary.meta,
                                     GlobalSupplementalPath(os, jsonPath)),
                          PerFileSupplementalPath(os, jsonPath))]

\* ------------------------------------------------------------------------
\* The applier (ApplyToFile)
\* ------------------------------------------------------------------------

\* What a media file holds: the embedded date-time (DateTime of an image,
\* creation_time of a video) and the file's modification time. Each is a
\* sequence: the one instant it holds, or none (NoTime) when the program has
\* not set it. A file that a tool has written anew has the modification
\* time of that write, which is not one the program set.
NoTime == <<>>
FreshMedia == [dateTime |-> NoTime, mtime |-> NoTime]

ApplyError(state) == [err |-> TRUE, modified |-> FALSE, state |-> state]

\* What a worker holds of a call before the call has returned.
NoApply == [err |-> FALSE, modified |-> FALSE]

\* Where a call of ApplyToFile stands after the external tool's part: it has
\* returned (an error, or Modified false), or os.Chtimes(path, photoTime,
\* photoTime) is the statement it runs next. state is what the media file
\* holds then.
ReturnsEarly(err, state) ==
    [next |-> "return", err |-> err, state |-> state, time |-> 0]
GoesToChtimes(state, photoTime) ==
    [next |-> "chtimes", err |-> FALSE, state |-> state, time |-> photoTime]

\* os.Chtimes and the return that follows it, in each of the four places it
\* is called from: an error, or the modification time set and Modified true.
Chtimes(env, state, photoTime) ==
    IF env.chtimesFails
    THEN ApplyError(state)
    ELSE [err |-> FALSE, modified |-> TRUE,
          state |-> [state EXCEPT !.mtime = <<photoTime>>]]

\* A call from the point the tool's part has left it at to its return.
Finish(env, part) ==
    IF part.next = "return"
    THEN [err |-> part.err, modified |-> FALSE, state |-> part.state]
    ELSE Chtimes(env, part.state, part.time)

\* applyImageMetadataWithExiftool up to os.Chtimes: the date is already
\* there (shouldSkipImageModification), or exiftool fails and the timestamps
\* are the fallback, or exiftool writes the date: with -overwrite_original
\* and without -P it puts a rewritten file in the place of the image.
\* env = [tools, toolFails, chtimesFails].
exiftoolPart(env, state, photoTime) ==
    IF state.dateTime # NoTime /\ DateOf(state.dateTime[1]) = DateOf(photoTime)
    THEN ReturnsEarly(FALSE, state)
    ELSE IF env.toolFails
    THEN GoesToChtimes(state, photoTime)
    ELSE GoesToChtimes([dateTime |-> <<photoTime>>, mtime |-> NoTime],
                       photoTime)

applyImageMetadataWithExiftool(env, state, photoTime) ==
    Finish(env, exiftoolPart(env, state, photoTime))

\* applyToImage up to os.Chtimes.
imagePart(env, state, meta) ==
    LET photoTime == GetPhotoTime(meta)
    IN  IF ~photoTime.ok THEN ReturnsEarly(TRUE, state)
        ELSE IF "exiftool" \in env.tools
        THEN exiftoolPart(env, state, photoTime.time)
        ELSE GoesToChtimes(state, photoTime.time)

applyToImage(env, state, meta) == Finish(env, imagePart(env, state, meta))

\* applyToVideo up to os.Chtimes: with ffmpeg on the PATH the copy it writes
\* replaces the file (os.Rename) and carries creation_time; the file then
\* has the modification time of the copy.
videoPart(env, state, meta) ==
    LET photoTime == GetPhotoTime(meta)
    IN  IF ~photoTime.ok THEN ReturnsEarly(TRUE, state)
        ELSE IF "ffmpeg" \notin env.tools
        THEN GoesToChtimes(state, photoTime.time)
        ELSE IF env.toolFails THEN ReturnsEarly(TRUE, state)
        ELSE GoesToChtimes([dateTime |-> <<photoTime.time>>, mtime |-> NoTime],
                           photoTime.time)

applyToVideo(env, state, meta) == Finish(env, videoPart(env, state, meta))

\* ApplyToFile up to os.Chtimes.
ToolPart(os, env, mediaPath, state, meta) ==
    IF isImageFile(os, mediaPath) THEN imagePart(env, state, meta)
    ELSE IF isVideoFile(os, mediaPath) THEN videoPart(env, state, meta)
    ELSE ReturnsEarly(TRUE, state)

\* ApplyToFile: what it returns (an error or Modified) and what the media
\* file holds afterwards.
ApplyToFile(os, env, mediaPath, state, meta) ==
    IF isImageFile(os, mediaPath) THEN applyToImage(env, state, meta)
    ELSE IF isVideoFile(os, mediaPath) THEN applyToVideo(env, state, meta)
    ELSE ApplyError(state)

\* ------------------------------------------------------------------------
\* Specification of one resolution: SpecResolve
\* ------------------------------------------------------------------------

\* The variables of a part of the program that a specification does not run.
MergeIdle ==
    /\ mPrimary = ZeroMetadata
    /\ mSupplemental = ZeroMetadata
    /\ mPc = "idle"
    /\ mOut = ZeroMetadata
    /\ mGps = NoGps

ParseIdle ==
    /\ jOs = "linux"
    /\ jLayers = <<>>
    /\ jPc = "idle"
    /\ jOut = [ok |-> FALSE, meta |-> ZeroMetadata]

\* The exit status of a process that has not exited.
NoExit == -1

PipelineIdle ==
    /\ dirArg = "dir"
    /\ cliPc = "start"
    /\ exitCode = NoExit
    /\ goos = "linux"
    /\ tools = {}
    /\ faults = {}
    /\ dirNames = {}
    /\ disk = {}
    /\ media = <<>>
    /\ dryRun = FALSE
    /\ workerCount = 0
    /\ stats = <<>>
    /\ deletedFiles = {}
    /\ mainPc = "none"
    /\ walkList = <<>>
    /\ walkIdx = 0
    /\ filesToProcess = <<>>
    /\ ret = <<>>
    /\ sendPc = "none"
    /\ sendIdx = 0
    /\ jobChan = <<>>
    /\ closed = FALSE
    /\ wpc = <<>>
    /\ job = <<>>
    /\ wJson = <<>>
    /\ wMeta = <<>>
    /\ wRes = <<>>
    /\ run = 0
    /\ started = <<>>
    /\ finished = <<>>
    /\ applied = {}
    /\ consumed = {}

ResolveIdle ==
    /\ rOs = "linux"
    /\ rMedia = <<>>
    /\ rFiles = {}
    /\ rDirs = {}
    /\ rErrs = {}
    /\ rPc = "idle"
    /\ rOut = [probes |-> <<>>, jsonPath |-> <<>>, err |-> "nil",
               isDir |-> FALSE, index |-> 0]

\* Media paths handed to the resolver, as filepath.Walk builds them on each
\* operating system (a Linux file name may itself hold a backslash).
WindowsMedia ==
    { <<"C", ":", "\\", "r", "\\", "I", "(", "2", ")", ".", "j", "p", "g">>,
      <<"C", ":", "\\", "r", "\\", "I", ".", "j", "p", "g">>,
      <<"C", ":", "\\", "r", "\\", "I", "(", "1", ")", "(", "2", ")", ".", "j", "p", "g">>,
      <<"C", ":", "\\", "r", "(", "3", ")", "\\", "I", "(", "2", ")", ".", "j", "p", "g">>,
      <<"C", ":", "\\", "r", "(", "3", ")", "\\", "I", ".", "m", "p", "4">>,
      <<"C", ":", "\\", "r", ".", "d", "\\", "I", "(", "1", "2", ")">> }

LinuxMedia ==
    { <<"/", "r", "/", "I", "(", "2", ")", ".", "j", "p", "g">>,
      <<"/", "r", "/", "I", ".", "j", "p", "g">>,
      <<"/", "r", "/", "x", "\\", "I", "(", "2", ")", ".", "j", "p", "g">>,
      <<"/", "r", "(", "3", ")", "/", "I", "(", "2", ")", ".", "j", "p", "g">>,
      <<"/", "r", ".", "d", "/", "I", "(", "1", "2", ")">> }

MediaInputs(os) == IF os = "windows" THEN WindowsMedia ELSE LinuxMedia

\* The media file name with its extension and its parenthesized runs taken
\* out and ".supplemental-metadata", the runs and ".json" put after it: the
\* sidecar name of the form name.supplemental-metadata(K).json.
RECURSIVE Concat(_)
Concat(ss) == IF ss = <<>> THEN <<>> ELSE Head(ss) \o Concat(Tail(ss))

RECURSIVE StripRuns(_, _)
StripRuns(s, i) ==
    IF i > Len(s)
    THEN <<>>
    ELSE LET e == MatchEndAt(s, i)
         IN  IF e = 0
             THEN <<s[i]>> \o StripRuns(s, i + 1)
             ELSE StripRuns(s, e + 1)

DirPrefix(os, path) ==
    LET I == {i \in 1..Len(path) : IsPathSeparator(os, path[i])}
    IN  IF I = {} THEN <<>> ELSE SubSeq(path, 1, SetMax(I))

BaseName(os, path) == SubSeq(path, Len(DirPrefix(os, path)) + 1, Len(path))

ExtlessMarkerSidecar(os, mediaPath) ==
    LET base == BaseName(os, mediaPath)
        stem == TrimSuffix(base, Ext(os, mediaPath))
    IN  DirPrefix(os, mediaPath) \o StripRuns(stem, 1) \o sSupplemental
            \o Concat(FindAllString(stem)) \o sJson

\* A JSON file of the same directory that belongs to another media file.
StrangerSidecar(os, mediaPath) ==
    DirPrefix(os, mediaPath) \o <<"Z", ".", "j", "p", "g">> \o sJson

Range(f) == {f[i] : i \in DOMAIN f}

\* The suffixes of jsonSuffixes whose candidates may exist in a resolver
\* input: the empty one, the full one, its first truncation and the last.
SampledSuffixes == {1, 2, 3, Len(jsonSuffixes)}

\* The paths that may exist beside a media path in a resolver input.
NearbyPaths(os, mediaPath) ==
    {SwapCandidate(os, mediaPath)}
        \cup {MarkerCandidates(mediaPath)[i] : i \in SampledSuffixes}
        \cup {PlainCandidates(mediaPath)[i] : i \in SampledSuffixes}
        \cup {ExtlessMarkerSidecar(os, mediaPath), StrangerSidecar(os, mediaPath)}

\* The subsets of S of at most n elements.
RECURSIVE SubsetsUpTo(_, _)
SubsetsUpTo(S, n) ==
    IF n = 0
    THEN {{}}
    ELSE LET P == SubsetsUpTo(S, n - 1)
         IN  P \cup {T \cup {x} : T \in P, x \in S}

NoResult ==
    [probes |-> <<>>, jsonPath |-> <<>>, err |-> "nil", isDir |-> FALSE,
     index |-> 0]

InitResolve ==
    /\ rOs \in {"windows", "linux"}
    /\ rMedia \in MediaInputs(rOs)
    /\ \E there \in SubsetsUpTo(NearbyPaths(rOs, rMedia), MaxNearby) :
          \E d \in SUBSET there :
             \E e \in SUBSET (there \ d) :
                /\ rDirs = d
                /\ rErrs = e
                /\ rFiles = there \ (d \cup e)
    /\ rPc = "call"
    /\ rOut = NoResult
    /\ MergeIdle
    /\ ParseIdle
    /\ PipelineIdle

\* One call of checkSupplementalData(mediaPath).
Resolve ==
    /\ rPc = "call"
    /\ rOut' = checkSupplementalData(rOs, rFiles, rDirs, rErrs, rMedia)
    /\ rPc' = "returned"
    /\ UNCHANGED <<rOs, rMedia, rFiles, rDirs, rErrs>>
    /\ UNCHANGED <<mvars, jvars, pvars>>

NextResolve == Resolve

SpecResolve == InitResolve /\ [][NextResolve]_vars

\* ------------------------------------------------------------------------
\* Specification of one merge: SpecMerge
\* ------------------------------------------------------------------------

GeoKeys == {"Latitude", "Longitude", "Altitude", "LatitudeSpan", "LongitudeSpan"}
TextKeys == {"Title", "Description"}
TimeKeys == {"CreationTime", "ModificationTime", "PhotoTakenTime"}

\* The leaf fields of a Metadata record: <<field>> or <<fix, component>>.
FieldKeys ==
    {<<k>> : k \in TextKeys \cup TimeKeys \cup {"ImageViews"}}
        \cup {<<"GeoData", k>> : k \in GeoKeys}
        \cup {<<"GeoDataAlt", k>> : k \in GeoKeys}

\* The record whose fields F are set: texts to txt, timestamps to ts, the
\* view count and the coordinates to num; the other fields are zero.
MetadataWith(F, txt, ts, num) ==
    LET geo(fix) == [k \in GeoKeys |-> IF <<fix, k>> \in F THEN num ELSE 0]
    IN  [Title            |-> IF <<"Title">> \in F THEN txt ELSE "",
         Description      |-> IF <<"Description">> \in F THEN txt ELSE "",
         ImageViews       |-> IF <<"ImageViews">> \in F THEN num ELSE 0,
         CreationTime     |-> IF <<"CreationTime">> \in F THEN ts ELSE <<>>,
         ModificationTime |-> IF <<"ModificationTime">> \in F THEN ts ELSE <<>>,
         PhotoTakenTime   |-> IF <<"PhotoTakenTime">> \in F THEN ts ELSE <<>>,
         GeoData          |-> geo("GeoData"),
         GeoDataAlt       |-> geo("GeoDataAlt")]

\* Primary records (values "P", "86400", 1) and supplemental records
\* (values "S", "172800", 2) with at most MaxFields fields set.
PrimaryInputs ==
    {MetadataWith(F, "P", <<"8", "6", "4", "0", "0">>, 1) :
        F \in SubsetsUpTo(FieldKeys, MaxFields)}

SupplementalInputs ==
    {MetadataWith(F, "S", <<"1", "7", "2", "8", "0", "0">>, 2) :
        F \in SubsetsUpTo(FieldKeys, MaxFields)}

InitMerge ==
    /\ mPrimary \in PrimaryInputs
    /\ mSupplemental \in SupplementalInputs
    /\ mPc = "call"
    /\ mOut = ZeroMetadata
    /\ mGps = NoGps
    /\ ResolveIdle
    /\ ParseIdle
    /\ PipelineIdle

\* One call of mergeMetadata(primary, supplemental).
Merge ==
    /\ mPc = "call"
    /\ mOut' = mergeMetadata(mPrimary, mSupplemental)
    /\ mPc' = "returned"
    /\ UNCHANGED <<mPrimary, mSupplemental, mGps>>
    /\ UNCHANGED <<rvars, jvars, pvars>>

\* The applier builds the GPS arguments from the merged record.
WriteGps ==
    /\ mPc = "returned"
    /\ mGps' = GpsArguments(mOut)
    /\ mPc' = "written"
    /\ UNCHANGED <<mPrimary, mSupplemental, mOut>>
    /\ UNCHANGED <<rvars, jvars, pvars>>

NextMerge == Merge \/ WriteGps

SpecMerge == InitMerge /\ [][NextMerge]_vars

\* ------------------------------------------------------------------------
\* The pipeline: input trees, faults and what they make of the file system
\* ------------------------------------------------------------------------

\* File names of the small trees: two media files and the three sidecars
\* the resolver and ParseJSON can pair with them.
eJpg == <<".", "j", "p", "g">>
eMp4 == <<".", "m", "p", "4">>
nJpg == <<"a">> \o eJpg
nMp4 == <<"a">> \o eMp4
\* a.json, a.jpg.json, a.jpg.supplemental-metadata.json
nSwap == <<"a">> \o sJson
nPrimary == nJpg \o sJson
nPerFile == nJpg \o sSupplemental \o sJson

TreeNames == {nJpg, nMp4, nSwap, nPrimary, nPerFile}

\* Two more media files, each with its sidecar: a.dng, which only the scanner
\* lists as an image, and A.JPG, an extension in upper case.
eDng == <<".", "d", "n", "g">>
nDng == <<"a">> \o eDng
nUpperJpg == <<"A", ".", "J", "P", "G">>

ExtensionTrees == {{nDng, nDng \o sJson}, {nUpperJpg, nUpperJpg \o sJson}}

\* New: runtime.NumCPU() workers, but at least two.
NewWorkerCount(numCPU) == IF numCPU < 2 THEN 2 ELSE numCPU

MaxPool == NewWorkerCount(MaxCPU)

\* make(chan fileJob, p.workerCount*2)
Capacity(n) == n * 2

\* A tree of media files without sidecars, one more than the largest pool
\* can hold in its queue and its workers.
BulkSize == Capacity(MaxPool) + MaxPool + 1
BulkNames == {<<LowerLetters[i]>> \o eJpg : i \in 1..BulkSize}

Trees == SubsetsUpTo(TreeNames, MaxFiles) \cup {BulkNames} \cup ExtensionTrees

\* The root directory given on the command line, and the path filepath.Walk
\* builds for a name in it (<<>> names the root itself).
RootDir(os) == IF os = "windows" THEN <<"C", ":", "\\", "r">> ELSE <<"/", "r">>

PathOf(os, name) ==
    IF name = <<>> THEN RootDir(os) ELSE Join(os, RootDir(os), name)

NameOf(os, path) == IF path = RootDir(os) THEN <<>> ELSE Base(os, path)

\* What can be wrong with an entry. Of any entry: it is gone when Lstat
\* looks at it, or Lstat fails otherwise. Of a sidecar: byte-order mark,
\* malformed JSON, no timestamp, os.Remove fails, os.Stat fails, it is a
\* directory. Of a media file: the external tool fails, os.Chtimes fails,
\* it already holds the date of day one, os.Stat of the resolver's last
\* candidate fails.
WalkFaults == {"vanished", "lstaterr"}
SidecarFaults == {"bom", "malformed", "nots", "undeletable", "staterr", "isdir"}
MediaFaults == {"toolfail", "chtimesfail", "dated", "probeerr"}

FaultsOf(name) ==
    IF name = <<>> THEN WalkFaults
    ELSE IF HasSuffix(name, sJson) THEN WalkFaults \cup SidecarFaults
    ELSE WalkFaults \cup MediaFaults

FaultChoices(names) ==
    IF names \in {BulkNames} \cup ExtensionTrees THEN {}
    ELSE UNION {{<<n, k>> : k \in FaultsOf(n)} : n \in names \cup {<<>>}}

\* What is wrong in one input tree: at most MaxFaults faults, or a sidecar
\* that has both a byte-order mark and malformed JSON after it.
FaultSets(names) ==
    SubsetsUpTo(FaultChoices(names), MaxFaults)
        \cup {{<<n, "bom">>, <<n, "malformed">>} :
                 n \in {m \in names : <<m, "malformed">> \in FaultChoices(names)}}

Has(fl, name, kind) == <<name, kind>> \in fl

\* Regular files and directories under the root at the start.
InitialFiles(os, names, fl) ==
    {PathOf(os, n) : n \in {m \in names : /\ ~Has(fl, m, "vanished")
                                          /\ ~Has(fl, m, "isdir")}}

Dirs(os, names, fl) ==
    {PathOf(os, n) : n \in {m \in names : /\ ~Has(fl, m, "vanished")
                                          /\ Has(fl, m, "isdir")}}

\* Paths whose os.Stat fails with an error other than "does not exist".
StatErrs(os, names, fl) ==
    {PathOf(os, n) : n \in {m \in names : Has(fl, m, "staterr")}}
      \cup {Candidates(os, PathOf(os, n))[Len(Candidates(os, PathOf(os, n)))] :
               n \in {m \in names : Has(fl, m, "probeerr")}}

\* The photoTakenTime of each sidecar: day one, two, three.
Stamp(name) ==
    IF name = nSwap THEN <<"8", "6", "4", "0", "0">>
    ELSE IF name = nPrimary THEN <<"1", "7", "2", "8", "0", "0">>
    ELSE <<"2", "5", "9", "2", "0", "0">>

FileBytes(fl, name) ==
    IF ~HasSuffix(name, sJson) THEN NoBytes
    ELSE [bom      |-> Has(fl, name, "bom"),
          syntaxOK |-> ~Has(fl, name, "malformed"),
          meta     |-> IF Has(fl, name, "nots")
                       THEN MetadataWith({<<"Title">>}, "t", <<>>, 0)
                       ELSE MetadataWith({<<"Title">>, <<"PhotoTakenTime">>},
                                         "t", Stamp(name), 0)]

\* The file system as os.Stat and os.ReadFile see it when the regular files
\* are fs.
FileSystem(os, names, fl, fs) ==
    [files   |-> fs,
     dirs    |-> Dirs(os, names, fl),
     errs    |-> StatErrs(os, names, fl),
     content |-> [p \in fs |-> FileBytes(fl, Base(os, p))]]

InitialMedia(os, names, fl) ==
    [p \in {PathOf(os, n) : n \in {m \in names : isSupportedMediaFile(os, m)}} |->
        IF Has(fl, Base(os, p), "dated")
        THEN [FreshMedia EXCEPT !.dateTime = <<SecondsPerDay>>]
        ELSE FreshMedia]

ToolEnv(os, tls, fl, mediaPath) ==
    [tools        |-> tls,
     toolFails    |-> Has(fl, Base(os, mediaPath), "toolfail"),
     chtimesFails |-> Has(fl, Base(os, mediaPath), "chtimesfail")]

\* os.Lstat of an entry filepath.Walk read from the directory.
LstatErr(os, names, fl, fs, path) ==
    IF Has(fl, NameOf(os, path), "lstaterr") THEN "other"
    ELSE IF \/ Has(fl, NameOf(os, path), "vanished")
            \/ path \notin fs \cup Dirs(os, names, fl) \cup {RootDir(os)}
    THEN "notexist"
    ELSE "nil"

\* sort.Strings: bytewise order, on the characters of the model's paths.
Ascii ==
    <<"(", ")", "-", ".", "/", "0", "1", "2", "3", "4", "5", "6", "7", "8", "9", ":">>
       \o UpperLetters \o <<"\\">> \o LowerLetters

Code(c) == CHOOSE i \in 1..Len(Ascii) : Ascii[i] = c

StrLess(a, b) ==
    \E k \in 1..(Len(b)) :
        /\ k <= Len(a) + 1
        /\ \A j \in 1..(k - 1) : a[j] = b[j]
        /\ \/ k = Len(a) + 1
           \/ Code(a[k]) < Code(b[k])

RECURSIVE SortStrings(_)
SortStrings(S) ==
    IF S = {} THEN <<>>
    ELSE LET least == CHOOSE x \in S : \A y \in S \ {x} : StrLess(x, y)
         IN  <<least>> \o SortStrings(S \ {least})

\* The paths filepath.Walk hands to the callback, in order: the root, then
\* the names of the directory in sorted order.
WalkEntries(os, names) ==
    <<RootDir(os)>> \o [i \in 1..Cardinality(names) |->
                            Join(os, RootDir(os), SortStrings(names)[i])]

\* ------------------------------------------------------------------------
\* Specification of one call of ParseJSON: SpecParse
\* ------------------------------------------------------------------------

\* A supplemental file of the directory: not there, there and not JSON, or
\* there with a record.
NoFile == [present |-> FALSE, syntaxOK |-> FALSE, meta |-> ZeroMetadata]

LayerFiles(txt, ts, num) ==
    {NoFile,
     [present |-> TRUE, syntaxOK |-> FALSE,
      meta |-> MetadataWith({<<"Title">>}, txt, ts, num)],
     [present |-> TRUE, syntaxOK |-> TRUE, meta |-> ZeroMetadata]}
       \cup {[present |-> TRUE, syntaxOK |-> TRUE,
               meta |-> MetadataWith({k}, txt, ts, num)] : k \in FieldKeys}

\* The global file holds "G", day two and 2 in the field it sets, the
\* per-file one "F", day three and 3; the primary "P", day one and 1.
GlobalInputs == LayerFiles("G", <<"1", "7", "2", "8", "0", "0">>, 2)

PerFileInputs == LayerFiles("F", <<"2", "5", "9", "2", "0", "0">>, 3)

\* The primary sidecar a.jpg.json of the root directory and the two files
\* ParseJSON looks for beside it.
PrimaryPath(os) == PathOf(os, nPrimary)

LayerPaths(os) ==
    [primary |-> PrimaryPath(os),
     global  |-> GlobalSupplementalPath(os, PrimaryPath(os)),
     perFile |-> PerFileSupplementalPath(os, PrimaryPath(os))]

\* The file system of the call: the primary sidecar and the supplemental
\* files that are there.
LayerSystem(os, layers) ==
    LET there == {n \in {"primary", "global", "perFile"} : layers[n].present}
    IN  [files   |-> {LayerPaths(os)[n] : n \in there},
         dirs    |-> {},
         errs    |-> {},
         content |-> [q \in {LayerPaths(os)[n] : n \in there} |->
                         LET n == CHOOSE x \in there : LayerPaths(os)[x] = q
                         IN  [bom      |-> FALSE,
                              syntaxOK |-> layers[n].syntaxOK,
                              meta     |-> layers[n].meta]]]

InitParse ==
    /\ jOs \in {"windows", "linux"}
    /\ \E m \in PrimaryInputs : \E g \in GlobalInputs : \E f \in PerFileInputs :
          jLayers = [primary |-> [present |-> TRUE, syntaxOK |-> TRUE, meta |-> m],
                     global  |-> g,
                     perFile |-> f]
    /\ jPc = "call"
    /\ jOut = [ok |-> FALSE, meta |-> ZeroMetadata]
    /\ ResolveIdle
    /\ MergeIdle
    /\ PipelineIdle

\* One call of ParseJSON(jsonPath) on the primary sidecar.
Parse ==
    /\ jPc = "call"
    /\ jOut' = ParseJSON(jOs, LayerSystem(jOs, jLayers), PrimaryPath(jOs))
    /\ jPc' = "returned"
    /\ UNCHANGED <<jOs, jLayers>>
    /\ UNCHANGED <<rvars, mvars, pvars>>

NextParse == Parse

SpecParse == InitParse /\ [][NextParse]_vars

\* ------------------------------------------------------------------------
\* Statistics
\* ------------------------------------------------------------------------

ZeroStats ==
    [TotalFiles |-> 0, JSONFiles |-> 0, ProcessedFiles |-> 0,
     ModifiedFiles |-> 0, UnmodifiedFiles |-> 0, SkippedFiles |-> 0,
     ErrorCount |-> 0, ModifiedDetails |-> <<>>, UnmodifiedDetails |-> <<>>]

Counters(s) ==
    <<s.TotalFiles, s.JSONFiles, s.ProcessedFiles, s.ModifiedFiles,
      s.UnmodifiedFiles, s.SkippedFiles, s.ErrorCount>>

\* processMediaFile, lines 277-279, 295-297, 324-326
CountError(s) == [s EXCEPT !.ErrorCount = @ + 1]

\* lines 302-304
CountJSON(s) == [s EXCEPT !.JSONFiles = @ + 1]

\* lines 313-318
CountDryRun(s, detail) ==
    [s EXCEPT !.ProcessedFiles = @ + 1, !.ModifiedFiles = @ + 1,
              !.ModifiedDetails = Append(@, detail)]

\* A variant of lines 331-357 that counts without appending the detail line.
CountAppliedWithoutDetail(s, modified, detail) ==
    IF modified
    THEN [s EXCEPT !.ProcessedFiles = @ + 1, !.ModifiedFiles = @ + 1]
    ELSE [s EXCEPT !.ProcessedFiles = @ + 1, !.UnmodifiedFiles = @ + 1]

\* lines 331-357
CountApplied(s, modified, detail) ==
    IF modified
    THEN [s EXCEPT !.ProcessedFiles = @ + 1, !.ModifiedFiles = @ + 1,
                   !.ModifiedDetails = Append(@, detail)]
    ELSE [s EXCEPT !.ProcessedFiles = @ + 1, !.UnmodifiedFiles = @ + 1,
                   !.UnmodifiedDetails = Append(@, detail)]

\* os.Remove(jsonPath) succeeds.
Removes(fl, fs, os, jsonPath) ==
    jsonPath \in fs /\ ~Has(fl, Base(os, jsonPath), "undeletable")

\* A variant of Process's return that reports an error when any unit failed.
ProcessResultFailsOnUnitError(walkFailed, s) ==
    [stats |-> s,
     err   |-> IF walkFailed \/ s.ErrorCount > 0
               THEN "error walking directory" ELSE "nil"]

\* What Process returns: getStatsCopy() and the walk's error, if any.
ProcessResult(walkFailed, s) ==
    [stats |-> s,
     err   |-> IF walkFailed THEN "error walking directory" ELSE "nil"]

\* processMediaFile run to its end with no other worker running: the world
\* (regular files, media files, statistics, deletedFiles) it leaves.
\* E = [goos, tools, faults, names, dryRun].
processMediaFile(E, world, mediaPath) ==
    LET fsys   == FileSystem(E.goos, E.names, E.faults, world.disk)
        r      == checkSupplementalData(E.goos, fsys.files, fsys.dirs,
                                        fsys.errs, mediaPath)
        parsed == ParseJSON(E.goos, fsys, r.jsonPath)
        res    == ApplyToFile(E.goos,
                              ToolEnv(E.goos, E.tools, E.faults, mediaPath),
                              mediaPath, world.media[mediaPath], parsed.meta)
        gone   == Removes(E.faults, world.disk, E.goos, r.jsonPath)
        detail == Base(E.goos, mediaPath)
    IN  IF r.err = "notexist" THEN world
        ELSE IF r.err # "nil" THEN [world EXCEPT !.stats = CountError(@)]
        ELSE IF r.isDir THEN world
        ELSE IF ~parsed.ok THEN [world EXCEPT !.stats = CountError(@)]
        ELSE IF E.dryRun
        THEN [world EXCEPT !.stats = CountDryRun(CountJSON(@), detail)]
        ELSE IF res.err
        THEN [world EXCEPT !.stats = CountError(CountJSON(@)),
                           !.media[mediaPath] = res.state]
        ELSE [world EXCEPT
                !.stats = CountApplied(CountJSON(@), res.modified, detail),
                !.media[mediaPath] = res.state,
                !.disk = IF gone THEN @ \ {r.jsonPath} ELSE @,
                !.deletedFiles = IF gone THEN @ \cup {r.jsonPath} ELSE @]

\* A pool of one worker: the units one after the other, in queue order.
RECURSIVE processInTurn(_, _, _)
processInTurn(E, world, paths) ==
    IF paths = <<>> THEN world
    ELSE processInTurn(E, processMediaFile(E, world, Head(paths)), Tail(paths))

\* ------------------------------------------------------------------------
\* Process: the walk, the sender, the workers
\* ------------------------------------------------------------------------

NoJob == [mediaPath |-> <<>>]
NoReturn == [stats |-> ZeroStats, err |-> "nil"]

Workers == 1..workerCount

\* The state of a new Processor (New) on a tree, before Process is called.
InitPool(n) ==
    /\ goos \in {"linux", "windows"}
    /\ tools \in SUBSET {"exiftool", "ffmpeg"}
    /\ dryRun \in BOOLEAN
    /\ workerCount = n
    /\ dirNames \in Trees
    /\ faults \in FaultSets(dirNames)
    /\ disk = InitialFiles(goos, dirNames, faults)
    /\ media = InitialMedia(goos, dirNames, faults)
    /\ stats = ZeroStats
    /\ deletedFiles = {}
    /\ mainPc = "new"
    /\ walkList = <<>>
    /\ walkIdx = 0
    /\ filesToProcess = <<>>
    /\ ret = NoReturn
    /\ sendPc = "none"
    /\ sendIdx = 0
    /\ jobChan = <<>>
    /\ closed = FALSE
    /\ wpc = [w \in 1..n |-> "none"]
    /\ job = [w \in 1..n |-> NoJob]
    /\ wJson = [w \in 1..n |-> <<>>]
    /\ wMeta = [w \in 1..n |-> ZeroMetadata]
    /\ wRes = [w \in 1..n |-> NoApply]
    /\ run = 1
    /\ started = <<>>
    /\ finished = <<>>
    /\ applied = {}
    /\ consumed = {}

\* main has checked its -dir argument and calls New and Process.
InProcess ==
    /\ dirArg = "dir"
    /\ cliPc = "process"
    /\ exitCode = NoExit

Init ==
    /\ \E numCPU \in 1..MaxCPU : InitPool(NewWorkerCount(numCPU))
    /\ InProcess
    /\ ResolveIdle
    /\ MergeIdle
    /\ ParseIdle

\* The file system as the program sees it now.
Fsys == FileSystem(goos, dirNames, faults, disk)

\* The names the directory read returns: what is there, and in the first run
\* the entries that are gone by the time Lstat looks at them.
Listed ==
    {n \in dirNames :
        \/ PathOf(goos, n) \in disk \cup Dirs(goos, dirNames, faults)
        \/ run = 1 /\ Has(faults, n, "vanished")}

\* Process, lines 65-76: the channel is made, the workers are started, and
\* filepath.Walk reads the root directory.
StartProcess ==
    /\ cliPc = "process"
    /\ mainPc = "new"
    /\ mainPc' = "walk"
    /\ wpc' = [w \in Workers |-> "idle"]
    /\ walkList' = WalkEntries(goos, Listed)
    /\ walkIdx' = 1
    /\ UNCHANGED <<cliv, envv, fsv, procv, filesToProcess, ret, sendv, chanv,
                   job, wJson, wMeta, wRes, histv, others>>

\* The callback of filepath.Walk on the next entry (lines 76-112).
WalkFn ==
    /\ mainPc = "walk"
    /\ walkIdx <= Len(walkList)
    /\ LET path         == walkList[walkIdx]
           err          == LstatErr(goos, dirNames, faults, disk, path)
           isDir        == path \in Dirs(goos, dirNames, faults) \cup {RootDir(goos)}
           supplemental == HasSuffix(path, sSupplemental \o sJson)
       IN  IF err # "nil" /\ ~(err = "notexist" /\ supplemental)
           THEN \* return err: the walk stops
                /\ mainPc' = "walkFailed"
                /\ UNCHANGED <<walkIdx, stats, filesToProcess>>
           ELSE /\ walkIdx' = walkIdx + 1
                /\ UNCHANGED mainPc
                /\ IF err # "nil" \/ isDir
                   THEN UNCHANGED <<stats, filesToProcess>>
                   ELSE /\ stats' = [stats EXCEPT !.TotalFiles = @ + 1]
                        /\ filesToProcess' =
                             IF /\ ~supplemental
                                /\ path \notin deletedFiles
                                /\ isSupportedMediaFile(goos, path)
                             THEN Append(filesToProcess, path)
                             ELSE filesToProcess
    /\ UNCHANGED <<cliv, envv, fsv, deletedFiles, walkList, ret, sendv, chanv,
                   workv, histv, others>>

\* Lines 123-129: the walk returned nil; the sender goroutine is started.
WalkDone ==
    /\ mainPc = "walk"
    /\ walkIdx > Len(walkList)
    /\ mainPc' = "wait"
    /\ sendPc' = "sending"
    /\ sendIdx' = 1
    /\ UNCHANGED <<cliv, envv, fsv, procv, walkList, walkIdx, filesToProcess, ret,
                   chanv, workv, histv, others>>

\* A variant of lines 114-118 that starts the sender goroutine all the same
\* and leaves the closing of the channel to it.
WalkFailedStillSends ==
    /\ mainPc = "walkFailed"
    /\ stats' = CountError(stats)
    /\ mainPc' = "waitErr"
    /\ sendPc' = "sending"
    /\ sendIdx' = 1
    /\ UNCHANGED <<cliv, envv, fsv, deletedFiles, walkList, walkIdx, filesToProcess,
                   ret, chanv, workv, histv, others>>

\* Lines 114-118: the walk returned an error.
WalkFailed ==
    /\ mainPc = "walkFailed"
    /\ stats' = CountError(stats)
    /\ closed' = TRUE
    /\ mainPc' = "waitErr"
    /\ UNCHANGED <<cliv, envv, fsv, deletedFiles, walkList, walkIdx, filesToProcess,
                   ret, sendv, jobChan, workv, histv, others>>

\* wg.Wait() returns: every worker has called wg.Done.
WaitGroupZeroNoWait == TRUE

WaitGroupZero == \A w \in Workers : wpc[w] = "done"

\* Lines 119-120 and 132-134.
Return ==
    /\ mainPc \in {"wait", "waitErr"}
    /\ WaitGroupZero
    /\ ret' = ProcessResult(mainPc = "waitErr", stats)
    /\ mainPc' = "returned"
    /\ UNCHANGED <<cliv, envv, fsv, procv, walkList, walkIdx, filesToProcess,
                   sendv, chanv, workv, histv, others>>

\* jobChan <- fileJob{mediaPath}: blocks while the buffer is full.
Send ==
    /\ sendPc = "sending"
    /\ sendIdx <= Len(filesToProcess)
    /\ Len(jobChan) < Capacity(workerCount)
    /\ jobChan' = Append(jobChan, [mediaPath |-> filesToProcess[sendIdx]])
    /\ sendIdx' = sendIdx + 1
    /\ UNCHANGED <<cliv, envv, fsv, procv, mainv, ret, sendPc, closed, workv,
                   histv, others>>

\* close(jobChan) at the end of the sender.
CloseChan ==
    /\ sendPc = "sending"
    /\ sendIdx > Len(filesToProcess)
    /\ closed' = TRUE
    /\ sendPc' = "done"
    /\ UNCHANGED <<cliv, envv, fsv, procv, mainv, ret, sendIdx, jobChan, workv,
                   histv, others>>

\* What a receive leaves in the channel.
DequeueKeepsJob(ch) == ch

Dequeue(ch) == Tail(ch)

\* for job := range jobChan: the next job is received.
Receive(w) ==
    /\ w \in Workers
    /\ wpc[w] = "idle"
    /\ jobChan # <<>>
    /\ job' = [job EXCEPT ![w] = Head(jobChan)]
    /\ jobChan' = Dequeue(jobChan)
    /\ wpc' = [wpc EXCEPT ![w] = "resolve"]
    /\ started' = Append(started, Head(jobChan).mediaPath)
    /\ UNCHANGED <<cliv, envv, fsv, procv, mainv, ret, sendv, closed, wJson, wMeta,
                   wRes, finished, applied, consumed, others>>

\* The range loop ends on the closed and drained channel; wg.Done.
WorkerExit(w) ==
    /\ w \in Workers
    /\ wpc[w] = "idle"
    /\ jobChan = <<>>
    /\ closed
    /\ wpc' = [wpc EXCEPT ![w] = "done"]
    /\ UNCHANGED <<cliv, envv, fsv, procv, mainv, ret, sendv, chanv, job, wJson,
                   wMeta, wRes, histv, others>>

\* processMediaFile returns to the range loop. What is remembered of the
\* unit: its media path, whether it counted an error, the return it left by
\* (how), and the sidecar it had resolved, if any.
EndUnit(w, failed, how) ==
    /\ wpc' = [wpc EXCEPT ![w] = "idle"]
    /\ job' = [job EXCEPT ![w] = NoJob]
    /\ wJson' = [wJson EXCEPT ![w] = <<>>]
    /\ wMeta' = [wMeta EXCEPT ![w] = ZeroMetadata]
    /\ wRes' = [wRes EXCEPT ![w] = NoApply]
    /\ finished' = Append(finished, [mediaPath |-> job[w].mediaPath,
                                      failed    |-> failed,
                                      how       |-> how,
                                      jsonPath  |-> wJson[w]])

\* processMediaFile, lines 269-290: the sidecar is looked up. The probes are
\* taken together: files are only ever removed while workers run, so what a
\* sequence of probes finds is what all of them find at its last probe.
ResolveSidecar(w) ==
    /\ w \in Workers
    /\ wpc[w] = "resolve"
    /\ LET r == checkSupplementalData(goos, Fsys.files, Fsys.dirs, Fsys.errs,
                                      job[w].mediaPath)
       IN  IF r.err = "nil" /\ ~r.isDir
           THEN /\ wJson' = [wJson EXCEPT ![w] = r.jsonPath]
                /\ wpc' = [wpc EXCEPT ![w] = "parse"]
                /\ UNCHANGED <<stats, job, wMeta, wRes, finished>>
           ELSE /\ stats' = IF r.err \in {"nil", "notexist"}
                            THEN stats ELSE CountError(stats)
                /\ EndUnit(w, r.err \notin {"nil", "notexist"},
                           IF r.err = "notexist" THEN "notfound"
                           ELSE IF r.err # "nil" THEN "resolveerr"
                           ELSE "isdir")
    /\ UNCHANGED <<cliv, envv, fsv, deletedFiles, mainv, ret, sendv, chanv, started,
                   applied, consumed, others>>

\* processMediaFile, line 293: ParseJSON is called and reads the sidecar
\* (part_002, lines 60-74: os.ReadFile, the mark removed, json.Unmarshal);
\* on an error ParseJSON returns it.
ParseSidecar(w) ==
    /\ w \in Workers
    /\ wpc[w] = "parse"
    /\ LET primary == parseSupplementalJSON(Fsys, wJson[w])
       IN  IF ~primary.ok
           THEN /\ wRes' = [wRes EXCEPT ![w] = [err |-> TRUE, modified |-> FALSE]]
                /\ wpc' = [wpc EXCEPT ![w] = "parsed"]
                /\ UNCHANGED wMeta
           ELSE /\ wMeta' = [wMeta EXCEPT ![w] = primary.meta]
                /\ wpc' = [wpc EXCEPT ![w] = "global"]
                /\ UNCHANGED wRes
    /\ UNCHANGED <<cliv, envv, fsv, procv, mainv, ret, sendv, chanv, job, wJson,
                   histv, others>>

\* ParseJSON, part_002 lines 89-96: the folder's supplemental-metadata.json
\* is looked for, read and merged.
MergeGlobal(w) ==
    /\ w \in Workers
    /\ wpc[w] = "global"
    /\ wMeta' = [wMeta EXCEPT ![w] =
                    MergedWith(Fsys, @, GlobalSupplementalPath(goos, wJson[w]))]
    /\ wpc' = [wpc EXCEPT ![w] = "perfile"]
    /\ UNCHANGED <<cliv, envv, fsv, procv, mainv, ret, sendv, chanv, job, wJson,
                   wRes, histv, others>>

\* ParseJSON, part_002 lines 98-107: the per-file supplemental file is looked
\* for, read and merged, and ParseJSON returns the record.
MergePerFile(w) ==
    /\ w \in Workers
    /\ wpc[w] = "perfile"
    /\ wMeta' = [wMeta EXCEPT ![w] =
                    MergedWith(Fsys, @, PerFileSupplementalPath(goos, wJson[w]))]
    /\ wpc' = [wpc EXCEPT ![w] = "parsed"]
    /\ UNCHANGED <<cliv, envv, fsv, procv, mainv, ret, sendv, chanv, job, wJson,
                   wRes, histv, others>>

\* A variant of the count of the parse that goes on to the applier in a dry
\* run too.
CountParsedIgnoresDryRun(w) ==
    /\ w \in Workers
    /\ wpc[w] = "parsed"
    /\ IF wRes[w].err
       THEN /\ stats' = CountError(stats)
            /\ EndUnit(w, TRUE, "decodeerr")
       ELSE /\ stats' = CountJSON(stats)
            /\ wpc' = [wpc EXCEPT ![w] = "apply"]
            /\ UNCHANGED <<job, wJson, wMeta, wRes, finished>>
    /\ UNCHANGED <<cliv, envv, fsv, deletedFiles, mainv, ret, sendv, chanv, started,
                   applied, consumed, others>>

\* processMediaFile, lines 294-306: what ParseJSON returned is counted:
\* ErrorCount and the return (295-299), or JSONFiles (302-304) and the test
\* of dryRun.
CountParsed(w) ==
    /\ w \in Workers
    /\ wpc[w] = "parsed"
    /\ IF wRes[w].err
       THEN /\ stats' = CountError(stats)
            /\ EndUnit(w, TRUE, "decodeerr")
       ELSE /\ stats' = CountJSON(stats)
            /\ wpc' = [wpc EXCEPT ![w] = IF dryRun THEN "report" ELSE "apply"]
            /\ UNCHANGED <<job, wJson, wMeta, wRes, finished>>
    /\ UNCHANGED <<cliv, envv, fsv, deletedFiles, mainv, ret, sendv, chanv, started,
                   applied, consumed, others>>

\* Lines 306-319: the report of a dry run, counted under the lock taken
\* anew.
ReportDryRun(w) ==
    /\ w \in Workers
    /\ wpc[w] = "report"
    /\ stats' = CountDryRun(stats, Base(goos, job[w].mediaPath))
    /\ EndUnit(w, FALSE, "dryrun")
    /\ UNCHANGED <<cliv, envv, fsv, deletedFiles, mainv, ret, sendv, chanv, started,
                   applied, consumed, others>>

\* Line 322: ApplyToFile is called and runs up to os.Chtimes, or to its
\* return when it ends before; the external tool has written the date by
\* then.
ApplyMetadata(w) ==
    /\ w \in Workers
    /\ wpc[w] = "apply"
    /\ LET mediaPath == job[w].mediaPath
           part == ToolPart(goos, ToolEnv(goos, tools, faults, mediaPath),
                            mediaPath, media[mediaPath], wMeta[w])
       IN  /\ media' = [media EXCEPT ![mediaPath] = part.state]
           /\ IF part.next = "return"
              THEN /\ wRes' = [wRes EXCEPT ![w] = [err      |-> part.err,
                                                   modified |-> FALSE]]
                   /\ wpc' = [wpc EXCEPT ![w] = "count"]
              ELSE /\ wpc' = [wpc EXCEPT ![w] = "chtimes"]
                   /\ UNCHANGED wRes
    /\ UNCHANGED <<cliv, envv, disk, procv, mainv, ret, sendv, chanv, job, wJson,
                   wMeta, histv, others>>

\* os.Chtimes(path, photoTime, photoTime) inside ApplyToFile, and the return
\* of ApplyToFile.
SetFileTimes(w) ==
    /\ w \in Workers
    /\ wpc[w] = "chtimes"
    /\ LET mediaPath == job[w].mediaPath
           res == Chtimes(ToolEnv(goos, tools, faults, mediaPath),
                          media[mediaPath], GetPhotoTime(wMeta[w]).time)
       IN  /\ media' = [media EXCEPT ![mediaPath] = res.state]
           /\ wRes' = [wRes EXCEPT ![w] = [err      |-> res.err,
                                           modified |-> res.modified]]
    /\ wpc' = [wpc EXCEPT ![w] = "count"]
    /\ UNCHANGED <<cliv, envv, disk, procv, mainv, ret, sendv, chanv, job, wJson,
                   wMeta, histv, others>>

\* A variant of the report that counts an applier error and goes on to the
\* removal of the sidecar.
CountResultGoesOnAfterError(w) ==
    /\ w \in Workers
    /\ wpc[w] = "count"
    /\ IF wRes[w].err
       THEN /\ stats' = CountError(stats)
            /\ UNCHANGED applied
       ELSE /\ stats' = CountApplied(stats, wRes[w].modified,
                                     Base(goos, job[w].mediaPath))
            /\ applied' = applied \cup
                  {[run |-> run, mediaPath |-> job[w].mediaPath,
                    jsonPath |-> wJson[w], modified |-> wRes[w].modified]}
    /\ wpc' = [wpc EXCEPT ![w] = "remove"]
    /\ UNCHANGED <<job, wJson, wMeta, wRes, finished>>
    /\ UNCHANGED <<cliv, envv, fsv, deletedFiles, mainv, ret, sendv, chanv,
                   started, consumed, others>>

\* Lines 323-357: what ApplyToFile returned is counted: ErrorCount and the
\* return (324-327), or ProcessedFiles with ModifiedFiles or UnmodifiedFiles
\* and the detail line (331-357).
CountResult(w) ==
    /\ w \in Workers
    /\ wpc[w] = "count"
    /\ IF wRes[w].err
       THEN /\ stats' = CountError(stats)
            /\ EndUnit(w, TRUE, "applyerr")
            /\ UNCHANGED applied
       ELSE /\ stats' = CountApplied(stats, wRes[w].modified,
                                     Base(goos, job[w].mediaPath))
            /\ applied' = applied \cup
                  {[run |-> run, mediaPath |-> job[w].mediaPath,
                    jsonPath |-> wJson[w], modified |-> wRes[w].modified]}
            /\ wpc' = [wpc EXCEPT ![w] = "remove"]
            /\ UNCHANGED <<job, wJson, wMeta, wRes, finished>>
    /\ UNCHANGED <<cliv, envv, fsv, deletedFiles, mainv, ret, sendv, chanv,
                   started, consumed, others>>

\* A variant of the removal that goes on to remember the sidecar as deleted
\* whether or not os.Remove succeeded.
RemoveSidecarAlwaysMarks(w) ==
    /\ w \in Workers
    /\ wpc[w] = "remove"
    /\ disk' = IF Removes(faults, disk, goos, wJson[w])
               THEN disk \ {wJson[w]} ELSE disk
    /\ wpc' = [wpc EXCEPT ![w] = "mark"]
    /\ UNCHANGED <<job, wJson, wMeta, wRes, finished>>
    /\ UNCHANGED <<cliv, envv, media, procv, mainv, ret, sendv, chanv, started,
                   applied, consumed, others>>

\* Lines 359-362: os.Remove(jsonPath); on its error the unit ends.
RemoveSidecar(w) ==
    /\ w \in Workers
    /\ wpc[w] = "remove"
    /\ IF Removes(faults, disk, goos, wJson[w])
       THEN /\ disk' = disk \ {wJson[w]}
            /\ wpc' = [wpc EXCEPT ![w] = "mark"]
            /\ UNCHANGED <<job, wJson, wMeta, wRes, finished>>
       ELSE /\ EndUnit(w, FALSE, "processed")
            /\ UNCHANGED disk
    /\ UNCHANGED <<cliv, envv, media, procv, mainv, ret, sendv, chanv, started,
                   applied, consumed, others>>

\* Lines 363-372: the removed sidecar is remembered in deletedFiles, under
\* the lock, and the unit ends.
MarkDeleted(w) ==
    /\ w \in Workers
    /\ wpc[w] = "mark"
    /\ deletedFiles' = deletedFiles \cup {wJson[w]}
    /\ consumed' = consumed \cup
          {[run |-> run, mediaPath |-> job[w].mediaPath, jsonPath |-> wJson[w]]}
    /\ EndUnit(w, FALSE, "processed")
    /\ UNCHANGED <<cliv, envv, fsv, stats, mainv, ret, sendv, chanv, started,
                   applied, others>>

MainStep == StartProcess \/ WalkFn \/ WalkDone \/ WalkFailed \/ Return

SenderStep == Send \/ CloseChan

WorkerStep(w) ==
    \/ Receive(w)
    \/ WorkerExit(w)
    \/ ResolveSidecar(w)
    \/ ParseSidecar(w)
    \/ MergeGlobal(w)
    \/ MergePerFile(w)
    \/ CountParsed(w)
    \/ ReportDryRun(w)
    \/ ApplyMetadata(w)
    \/ SetFileTimes(w)
    \/ CountResult(w)
    \/ RemoveSidecar(w)
    \/ MarkDeleted(w)

Next ==
    \/ StartProcess
    \/ WalkFn
    \/ WalkDone
    \/ WalkFailed
    \/ Return
    \/ Send
    \/ CloseChan
    \/ \E w \in 1..MaxPool :
          \/ Receive(w)
          \/ WorkerExit(w)
          \/ ResolveSidecar(w)
          \/ ParseSidecar(w)
          \/ MergeGlobal(w)
          \/ MergePerFile(w)
          \/ CountParsed(w)
          \/ ReportDryRun(w)
          \/ ApplyMetadata(w)
          \/ SetFileTimes(w)
          \/ CountResult(w)
          \/ RemoveSidecar(w)
          \/ MarkDeleted(w)

Spec == Init /\ [][Next]_vars

\* A step of the main goroutine, of the sender, of worker w, told by what it
\* changes: where Process is or how far the walk is, how far the sender is,
\* where the worker is. Each is enabled exactly when a step of that goroutine
\* is, and a step of Next is one of them exactly when that goroutine took it.
MainMoves ==
    /\ \/ mainPc = "new" /\ cliPc = "process"
       \/ mainPc \in {"walk", "walkFailed"}
       \/ mainPc \in {"wait", "waitErr"} /\ WaitGroupZero
    /\ \E pc \in {"walk", "walkFailed", "wait", "waitErr", "returned"} :
          \E i \in {walkIdx, walkIdx + 1} :
             /\ <<pc, i>> # <<mainPc, walkIdx>>
             /\ mainPc' = pc
             /\ walkIdx' = i

SenderMoves ==
    /\ sendPc = "sending"
    /\ sendIdx <= Len(filesToProcess) => Len(jobChan) < Capacity(workerCount)
    /\ \E pc \in {"sending", "done"} :
          \E i \in {sendIdx, sendIdx + 1} :
             /\ <<pc, i>> # <<sendPc, sendIdx>>
             /\ sendPc' = pc
             /\ sendIdx' = i

\* Where a worker is while it runs processMediaFile.
InUnit ==
    {"resolve", "parse", "global", "perfile", "parsed", "report", "apply",
     "chtimes", "count", "remove", "mark"}

WorkerMoves(w) ==
    /\ w \in Workers
    /\ \/ wpc[w] \in InUnit
       \/ wpc[w] = "idle" /\ (jobChan # <<>> \/ closed)
    /\ \E pc \in InUnit \cup {"idle", "done"} :
          /\ pc # wpc[w]
          /\ wpc' = [wpc EXCEPT ![w] = pc]

\* The Go scheduler runs every goroutine that can take a step, and every
\* unit of work ends: each of the main goroutine, the sender and the workers
\* keeps taking its steps.
FairSpec ==
    /\ Init
    /\ [][Next]_vars
    /\ WF_<<mainPc, walkIdx>>(MainMoves)
    /\ WF_<<sendPc, sendIdx>>(SenderMoves)
    /\ \A w \in 1..MaxPool : WF_wpc(WorkerMoves(w))

\* A second run of the program on the tree the first run left: a new
\* Processor, the same environment.
RunAgain ==
    /\ mainPc = "returned"
    /\ run < MaxRuns
    /\ run' = run + 1
    /\ stats' = ZeroStats
    /\ deletedFiles' = {}
    /\ mainPc' = "new"
    /\ walkList' = <<>>
    /\ walkIdx' = 0
    /\ filesToProcess' = <<>>
    /\ ret' = NoReturn
    /\ sendPc' = "none"
    /\ sendIdx' = 0
    /\ jobChan' = <<>>
    /\ closed' = FALSE
    /\ wpc' = [w \in Workers |-> "none"]
    /\ started' = <<>>
    /\ finished' = <<>>
    /\ UNCHANGED <<cliv, goos, tools, faults, dirNames, dryRun, workerCount,
                   fsv, job, wJson, wMeta, wRes, applied, consumed, others>>

NextRerun == Next \/ RunAgain

SpecRerun == Init /\ [][NextRerun]_vars

\* A pool of one worker (a Processor whose workerCount is set to 1).
InitPoolOfOne ==
    /\ InitPool(1)
    /\ InProcess
    /\ ResolveIdle
    /\ MergeIdle
    /\ ParseIdle

SpecPoolOfOne == InitPoolOfOne /\ [][Next]_vars

\* ------------------------------------------------------------------------
\* The command: func main around New and Process
\* ------------------------------------------------------------------------

\* The -dir argument: not given, a path os.Stat fails on, a path that is not
\* a directory, a directory whose absolute path cannot be made, a directory.
DirArgs == {"empty", "missing", "notdir", "abserr", "dir"}

\* A variant of the exit status that looks at the error of Process only.
ExitStatusOfErrorOnly(err, s) == IF err # "nil" THEN 1 ELSE 0

\* main, lines 49-78: log.Fatalf on the error of Process, os.Exit(1) on a
\* non-zero ErrorCount, else the return from main.
ExitStatus(err, s) ==
    IF err # "nil" THEN 1
    ELSE IF s.ErrorCount > 0 THEN 1
    ELSE 0

\* main, lines 13-47: the argument is checked; os.Exit(1) or log.Fatalf
\* when it is not a directory main can use.
MainStart ==
    /\ cliPc = "start"
    /\ mainPc = "new"
    /\ IF dirArg = "dir"
       THEN cliPc' = "process" /\ UNCHANGED exitCode
       ELSE cliPc' = "exited" /\ exitCode' = 1
    /\ UNCHANGED <<dirArg, envv, fsv, procv, mainv, ret, sendv, chanv, workv,
                   histv, others>>

\* main, lines 48-79: Process has returned; the statistics are printed and
\* the process exits.
Exit ==
    /\ cliPc = "process"
    /\ mainPc = "returned"
    /\ exitCode' = ExitStatus(ret.err, ret.stats)
    /\ cliPc' = "exited"
    /\ UNCHANGED <<dirArg, envv, fsv, procv, mainv, ret, sendv, chanv, workv,
                   histv, others>>

\* The program from the start of main. Without a directory to walk there is
\* no tree.
InitMain ==
    /\ \E numCPU \in 1..MaxCPU : InitPool(NewWorkerCount(numCPU))
    /\ dirArg \in DirArgs
    /\ dirArg # "dir" => (dirNames = {} /\ faults = {} /\ tools = {}
                            /\ goos = "linux" /\ ~dryRun /\ workerCount = MaxPool)
    /\ cliPc = "start"
    /\ exitCode = NoExit
    /\ ResolveIdle
    /\ MergeIdle
    /\ ParseIdle

NextMain == Next \/ MainStart \/ Exit

SpecMain == InitMain /\ [][NextMain]_vars

\* ------------------------------------------------------------------------
\* Properties of the resolver (checked under SpecResolve)
\* ------------------------------------------------------------------------

\* os.Stat of the resolver input succeeds / reports "does not exist".
rStatOK(path) == StatErr(rFiles, rDirs, rErrs, path) = "nil"
rStatNotExist(path) == StatErr(rFiles, rDirs, rErrs, path) = "notexist"

\* The file name of the input as the resolver sees it (what follows the last
\* backslash) and the directory part before it.
rName == FileNameOf(rMedia)
rDirPart == SubSeq(rMedia, 1, LastIndex(rMedia, "\\"))

\* The input's file name holds exactly one parenthesized digit run.
rOneRun == Len(FindAllString(BaseName(rOs, rMedia))) = 1

\* name.ext.supplemental-metadata(K).json for an input name(K).ext.
rMarkerSidecar ==
    rDirPart \o StripRuns(rName, 1) \o sSupplemental
        \o Concat(FindAllString(rName)) \o sJson

\* name.ext(K).json for an input name(K).ext.
rMarkerBare ==
    rDirPart \o StripRuns(rName, 1) \o Concat(FindAllString(rName)) \o sJson

\* The index in Candidates of the i-th path of step 3 and of step 4.
Step3(i) == 1 + i
Step4(i) == 1 + Len(jsonSuffixes) + i

\* C3 as stated: for a media path name(K).ext with exactly one parenthesized
\* run, when name.supplemental-metadata(K).json exists and name(K).json does
\* not, resolution returns that sidecar, found by a step-3 probe.
C3_ExtlessMarkerSidecarFound ==
    ( /\ rPc = "returned"
      /\ rOneRun
      /\ rStatOK(ExtlessMarkerSidecar(rOs, rMedia))
      /\ ~rStatOK(SwapCandidate(rOs, rMedia)) )
    => ( /\ rOut.err = "nil"
         /\ rOut.jsonPath = ExtlessMarkerSidecar(rOs, rMedia)
         /\ rOut.index \in {Step3(i) : i \in 1..Len(jsonSuffixes)} )

\* C3 amended: for a media path whose file name follows a backslash and holds
\* exactly one parenthesized run (name(K).ext), when
\* name.ext.supplemental-metadata(K).json exists and neither name(K).json nor
\* name.ext(K).json does, resolution returns that sidecar, found by the
\* second probe of step 3 (the marker re-inserted after the full suffix).
C3_MarkerReinserted ==
    ( /\ rPc = "returned"
      /\ LastIndex(rMedia, "\\") # 0
      /\ Len(FindAllString(rName)) = 1
      /\ rStatOK(rMarkerSidecar)
      /\ ~rStatOK(SwapCandidate(rOs, rMedia))
      /\ ~rStatOK(rMarkerBare) )
    => ( /\ rOut.err = "nil"
         /\ rOut.jsonPath = rMarkerSidecar
         /\ rOut.index = Step3(2)
         /\ Len(rOut.probes) = 3 )

\* The case of C3: C:\r\I(2).jpg resolved to C:\r\I.jpg.supplemental-metadata(2).json.
C3_Witness ==
    /\ rPc = "returned"
    /\ rOs = "windows"
    /\ rName = <<"I", "(", "2", ")", ".", "j", "p", "g">>
    /\ rMarkerSidecar \in rFiles
    /\ rOut.jsonPath = rMarkerSidecar
    /\ rOut.jsonPath =
         rDirPart \o <<"I", ".", "j", "p", "g">> \o sSupplemental
             \o <<"(", "2", ")">> \o sJson
    /\ rOut.index = Step3(2)

\* C4: when the extension-swapped path exists, resolution returns exactly
\* that path and os.Stat was called on no other path.
C4_SwapMatchOnly ==
    (rPc = "returned" /\ rStatOK(TrimSuffix(rMedia, Ext(rOs, rMedia)) \o sJson))
    => ( /\ rOut.err = "nil"
         /\ rOut.jsonPath = TrimSuffix(rMedia, Ext(rOs, rMedia)) \o sJson
         /\ rOut.probes = <<rOut.jsonPath>> )

\* The case of C4: the swapped path and a later candidate both exist.
C4_Witness ==
    /\ rPc = "returned"
    /\ SwapCandidate(rOs, rMedia) \in rFiles
    /\ PlainCandidates(rMedia)[2] \in rFiles
    /\ rOut.index = 1
    /\ Len(rOut.probes) = 1

\* C5: when os.Stat reports "does not exist" for every candidate path of
\* steps 1, 3 and 4, resolution returns not-found; and a returned path is
\* always a candidate of this media path that was probed and whose os.Stat
\* succeeded.
C5_NotFoundNoFalseMatch ==
    rPc = "returned" =>
      LET c == Candidates(rOs, rMedia)
      IN
      /\ (\A i \in 1..Len(c) : rStatNotExist(c[i]))
            => (rOut.err = "notexist" /\ rOut.index = 0)
      /\ rOut.err = "nil"
            => ( /\ rOut.jsonPath \in Range(c)
                 /\ rOut.jsonPath \in Range(rOut.probes)
                 /\ rOut.jsonPath \in rFiles \cup rDirs
                 /\ rOut.jsonPath \notin rErrs )

\* The case of C5: other JSON files exist in the directory, none of them a
\* candidate, and the resolution ends as not-found after every probe.
C5_Witness ==
    /\ rPc = "returned"
    /\ rFiles = {StrangerSidecar(rOs, rMedia), ExtlessMarkerSidecar(rOs, rMedia)}
    /\ rOneRun
    /\ rOut.err = "notexist"
    /\ Len(rOut.probes) = 1 + 2 * Len(jsonSuffixes)

\* The existing candidates of step 3 (by suffix index) and of step 4.
rExisting3 ==
    LET c == MarkerCandidates(rMedia)
    IN  {i \in 1..Len(jsonSuffixes) : rStatOK(c[i])}
rExisting4 ==
    LET c == PlainCandidates(rMedia)
    IN  {i \in 1..Len(jsonSuffixes) : rStatOK(c[i])}

\* The index of the longest suffix among the suffix indices I.
LongestOf(I) ==
    CHOOSE i \in I : \A j \in I : Len(jsonSuffixes[j]) <= Len(jsonSuffixes[i])

\* The index of the suffix tried first among I: the empty suffix when it is
\* there, else the longest.
FirstTriedOf(I) ==
    IF \E i \in I : jsonSuffixes[i] = <<>>
    THEN CHOOSE i \in I : jsonSuffixes[i] = <<>>
    ELSE LongestOf(I)

\* C6 as stated: with no extension-swap match, the existing candidate with
\* the longest suffix of the first probe step that has one is returned (the
\* empty suffix last).
C6_LongestSuffixFirst ==
    (rPc = "returned" /\ ~rStatOK(SwapCandidate(rOs, rMedia))) =>
      /\ rExisting3 # {}
            => rOut.jsonPath = MarkerCandidates(rMedia)[LongestOf(rExisting3)]
      /\ (rExisting3 = {} /\ rExisting4 # {})
            => rOut.jsonPath = PlainCandidates(rMedia)[LongestOf(rExisting4)]

\* C6 amended: with no extension-swap match, the candidate returned is, in
\* the first probe step that has an existing candidate, the one with the
\* empty suffix when it exists and otherwise the one with the longest suffix.
C6_EmptyThenLongest ==
    (rPc = "returned" /\ ~rStatOK(SwapCandidate(rOs, rMedia))) =>
      /\ rExisting3 # {}
            => ( /\ rOut.err = "nil"
                 /\ rOut.jsonPath = MarkerCandidates(rMedia)[FirstTriedOf(rExisting3)] )
      /\ (rExisting3 = {} /\ rExisting4 # {})
            => ( /\ rOut.err = "nil"
                 /\ rOut.jsonPath = PlainCandidates(rMedia)[FirstTriedOf(rExisting4)] )

\* The case of C6: X.ext.json, X.ext.supplemental-metadata.json and a
\* truncated X.ext.supplemental-metadat.json exist and X.ext.json is
\* returned.
C6_Witness ==
    /\ rPc = "returned"
    /\ rFiles = {rMedia \o sJson,
                 rMedia \o sSupplemental \o sJson,
                 rMedia \o SubSeq(sSupplemental, 1, Len(sSupplemental) - 1) \o sJson}
    /\ rOut.err = "nil"
    /\ rOut.jsonPath = rMedia \o sJson

\* The case of C6 among the non-empty suffixes: a truncated sidecar and a
\* shorter one exist, and the longer one is returned.
C6_WitnessTruncated ==
    /\ rPc = "returned"
    /\ rFiles = {rMedia \o SubSeq(sSupplemental, 1, Len(sSupplemental) - 1) \o sJson,
                 rMedia \o <<".", "s">> \o sJson}
    /\ rErrs = {}
    /\ rOut.jsonPath = rMedia \o SubSeq(sSupplemental, 1, Len(sSupplemental) - 1) \o sJson

\* ------------------------------------------------------------------------
\* Properties of the merge (checked under SpecMerge)
\* ------------------------------------------------------------------------

\* The value of leaf field k of record m, and whether it is present (a
\* non-empty text or timestamp, a non-zero number).
FieldOf(m, k) == IF Len(k) = 1 THEN m[k[1]] ELSE m[k[1]][k[2]]
Present(m, k) ==
    IF k[1] \in TextKeys THEN FieldOf(m, k) # ""
    ELSE IF k[1] \in TimeKeys THEN FieldOf(m, k) # <<>>
    ELSE FieldOf(m, k) # 0

\* C7 as stated: every field present in the primary keeps the primary's
\* value, and every field absent in the primary and present in the
\* supplemental takes the supplemental's value, each field independently.
C7_EveryFieldMerged ==
    mPc = "returned" =>
      \A k \in FieldKeys :
         /\ Present(mPrimary, k) => FieldOf(mOut, k) = FieldOf(mPrimary, k)
         /\ (~Present(mPrimary, k) /\ Present(mSupplemental, k))
               => FieldOf(mOut, k) = FieldOf(mSupplemental, k)

\* The fix of the result: the supplemental's as a whole when the primary's
\* latitude and longitude are both zero and the supplemental's latitude or
\* longitude is not, otherwise the primary's as a whole.
FixMerged(fix) ==
    IF /\ mPrimary[fix].Latitude = 0
       /\ mPrimary[fix].Longitude = 0
       /\ (mSupplemental[fix].Latitude # 0 \/ mSupplemental[fix].Longitude # 0)
    THEN mOut[fix] = mSupplemental[fix]
    ELSE mOut[fix] = mPrimary[fix]

\* C7 amended: title, description, view count, creation and photo-taken
\* timestamp keep the primary's value when present and take the
\* supplemental's when absent in the primary and present in the supplemental,
\* each independently; the modification timestamp is always the primary's;
\* each GPS fix is taken whole, from the supplemental when the primary's
\* latitude and longitude are both zero and the supplemental's are not both
\* zero, otherwise from the primary.
C7_MergeFieldwise ==
    mPc = "returned" =>
      /\ \A k \in {<<"Title">>, <<"Description">>, <<"ImageViews">>,
                    <<"CreationTime">>, <<"PhotoTakenTime">>} :
            /\ Present(mPrimary, k) => FieldOf(mOut, k) = FieldOf(mPrimary, k)
            /\ (~Present(mPrimary, k) /\ Present(mSupplemental, k))
                  => FieldOf(mOut, k) = FieldOf(mSupplemental, k)
            /\ (~Present(mPrimary, k) /\ ~Present(mSupplemental, k))
                  => ~Present(mOut, k)
      /\ mOut.ModificationTime = mPrimary.ModificationTime
      /\ FixMerged("GeoData")
      /\ FixMerged("GeoDataAlt")

\* The case of C7: the primary has a title and no photo-taken time, the
\* supplemental has both, and the result holds the primary's title and the
\* supplemental's photo-taken time.
C7_Witness ==
    /\ mPc = "returned"
    /\ mPrimary.Title = "P" /\ mSupplemental.Title = "S"
    /\ mPrimary.PhotoTakenTime = <<>> /\ mSupplemental.PhotoTakenTime # <<>>
    /\ mOut.Title = "P"
    /\ mOut.PhotoTakenTime = mSupplemental.PhotoTakenTime

\* The case of C7 for a fix: the primary holds only an altitude, the
\* supplemental a latitude, and the result is the supplemental's fix.
C7_WitnessFix ==
    /\ mPc = "returned"
    /\ mPrimary.GeoData.Altitude = 1 /\ mPrimary.GeoData.Latitude = 0
    /\ mSupplemental.GeoData.Latitude = 2
    /\ mOut.GeoData = mSupplemental.GeoData

\* ------------------------------------------------------------------------
\* Properties of the pipeline (checked under Spec, FairSpec and SpecRerun)
\* ------------------------------------------------------------------------

Returned == mainPc = "returned"

\* The walk returned nil: the sender goroutine was started.
WalkSucceeded == sendPc # "none"

Busy(w) == wpc[w] \in InUnit

\* The jobs the sender has put on the queue so far.
Sent == SubSeq(filesToProcess, 1, sendIdx - 1)

TimesIn(seq, x) == Cardinality({i \in 1..Len(seq) : seq[i] = x})

FinishedPaths == [i \in 1..Len(finished) |-> finished[i].mediaPath]

\* The world a pool of one worker leaves on the tree and the candidates of
\* this run.
RunEnv ==
    [goos |-> goos, tools |-> tools, faults |-> faults, names |-> dirNames,
     dryRun |-> dryRun]

PoolOfOne ==
    processInTurn(RunEnv,
                  [disk         |-> InitialFiles(goos, dirNames, faults),
                   media        |-> InitialMedia(goos, dirNames, faults),
                   stats        |-> [ZeroStats EXCEPT
                                       !.TotalFiles = stats.TotalFiles,
                                       !.ErrorCount = IF WalkSucceeded THEN 0 ELSE 1],
                   deletedFiles |-> {}],
                  IF WalkSucceeded THEN filesToProcess ELSE <<>>)

\* C1 (as the specification states it): when Process has returned, the
\* seven aggregate counters it returns are the ones a pool of one worker
\* ends with on the same tree, whatever the interleaving of the workers.
C1_CountersAsPoolOfOne ==
    Returned => Counters(ret.stats) = Counters(PoolOfOne.stats)

\* C1, the case: on a tree without faults (a.jpg, a.mp4 and a.json, which
\* the resolver pairs with both), two workers parsed the one sidecar and
\* Process returned JSONFiles = 2 where a pool of one worker counts 1.
C1_Witness ==
    /\ Returned
    /\ faults = {}
    /\ dirNames = {nJpg, nMp4, nSwap}
    /\ ret.stats.JSONFiles = 2
    /\ PoolOfOne.stats.JSONFiles = 1

\* C1, the race: two workers hold the same sidecar at the same time.
C1_WitnessRace ==
    \E v \in Workers : \E w \in Workers :
        /\ v # w
        /\ wpc[v] = "apply"
        /\ wpc[w] = "apply"
        /\ wJson[v] = wJson[w]

\* C2 (as the specification states it): in a second run, no successful
\* ApplyToFile modifies a media file whose sidecar the first run applied and
\* deleted.
C2_SecondRunLeavesProcessedAlone ==
    \A c \in consumed : \A a \in applied :
        (c.run = 1 /\ a.run = 2 /\ a.mediaPath = c.mediaPath) => ~a.modified

\* C2, the case: the second run has returned after it modified, from another
\* sidecar, a media file the first run had processed.
C2_Witness ==
    /\ Returned
    /\ run = 2
    /\ \E c \in consumed : \E a \in applied :
          /\ c.run = 1
          /\ a.run = 2
          /\ a.mediaPath = c.mediaPath
          /\ a.jsonPath # c.jsonPath
          /\ a.modified

\* C2, the same on the layout the README documents: a.jpg with a.jpg.json
\* and a.jpg.supplemental-metadata.json.
C2_WitnessDocumentedLayout ==
    /\ C2_Witness
    /\ faults = {}
    /\ dirNames = {nJpg, nPrimary, nPerFile}

\* C8: no media file is processed twice in one run. The candidates are
\* distinct paths; the jobs are received in the order they were queued, each
\* at most once; no two workers hold the same media path at the same time;
\* every received job is in exactly one worker or has ended exactly once;
\* and when Process returns after a successful walk, every candidate has
\* been received and its unit has ended, exactly once.
C8_EachCandidateOnce ==
    /\ \A i \in 1..Len(filesToProcess) : \A j \in 1..Len(filesToProcess) :
          i # j => filesToProcess[i] # filesToProcess[j]
    /\ Len(started) <= Len(Sent)
    /\ \A i \in 1..Len(started) : started[i] = filesToProcess[i]
    /\ \A v \in Workers : \A w \in Workers :
          (v # w /\ Busy(v) /\ Busy(w)) => job[v].mediaPath # job[w].mediaPath
    /\ \A i \in 1..Len(started) :
          Cardinality({w \in Workers : Busy(w) /\ job[w].mediaPath = started[i]})
             + TimesIn(FinishedPaths, started[i]) = 1
    /\ (Returned /\ WalkSucceeded) =>
          /\ started = filesToProcess
          /\ \A i \in 1..Len(filesToProcess) :
                TimesIn(FinishedPaths, filesToProcess[i]) = 1

\* C8, the case: Process has returned after two workers each processed
\* candidates of a run with more candidates than workers.
C8_Witness ==
    /\ Returned
    /\ Len(filesToProcess) > workerCount
    /\ Len(finished) = Len(filesToProcess)

\* C8, the case of two units in progress at once, on different media files.
C8_WitnessConcurrent ==
    \E v \in Workers : \E w \in Workers : v # w /\ Busy(v) /\ Busy(w)

\* C9: Process returns only when the queue is closed and empty, every
\* worker has left its loop, and every job that was put on the queue has
\* been processed to its end; and Process does return, after a successful
\* walk and after a failed one.
C9_ReturnsWhenAllDone ==
    /\ [](Returned =>
            /\ closed
            /\ jobChan = <<>>
            /\ \A w \in Workers : wpc[w] = "done" /\ job[w] = NoJob
            /\ sendPc \in {"none", "done"}
            /\ Len(finished) = Len(Sent)
            /\ \A i \in 1..Len(Sent) : TimesIn(FinishedPaths, Sent[i]) = 1)
    /\ <>Returned

\* C9, the case: Process has returned after a successful walk that queued
\* more jobs than the queue and the workers hold at once.
C9_Witness ==
    /\ Returned
    /\ WalkSucceeded
    /\ Len(finished) > Capacity(workerCount) + workerCount

\* C9, the case of the sender blocked on the full queue.
C9_WitnessSenderBlocked ==
    /\ sendPc = "sending"
    /\ sendIdx <= Len(filesToProcess)
    /\ Len(jobChan) = Capacity(workerCount)

\* C9, the case of the failed walk: Process has returned its error.
C9_WitnessWalkFailed ==
    /\ Returned
    /\ ~WalkSucceeded
    /\ ret.err # "nil"
    /\ filesToProcess # <<>>

\* C10: an error of one unit never aborts the run or another unit. When
\* Process returns after a successful walk, it returns a nil error and the
\* unit of every candidate has run to its end, however many units failed.
C10_UnitErrorsContained ==
    (Returned /\ WalkSucceeded) =>
        /\ ret.err = "nil"
        /\ \A i \in 1..Len(filesToProcess) :
              TimesIn(FinishedPaths, filesToProcess[i]) = 1
        /\ ret.stats.ErrorCount =
              Cardinality({i \in 1..Len(finished) : finished[i].failed})

\* C10, the case: a unit failed, a unit that ended after it succeeded, and
\* Process returned nil.
C10_Witness ==
    /\ Returned
    /\ ret.err = "nil"
    /\ ret.stats.ProcessedFiles > 0
    /\ \E i \in 1..Len(finished) : \E j \in 1..Len(finished) :
          i < j /\ finished[i].failed /\ ~finished[j].failed

\* ------------------------------------------------------------------------
\* Properties of the units of work (checked under Spec)
\* ------------------------------------------------------------------------

\* Worker w ends its unit in this step.
UnitEnds(w) == Busy(w) /\ wpc'[w] = "idle"

\* Worker w ends its unit in this step, by the return named how.
UnitEndsBy(w, how) ==
    /\ UnitEnds(w)
    /\ finished'[Len(finished')].how = how

\* The statistics but for the two lists of details.
SameCountersBut(field, s, t) ==
    \A f \in {"TotalFiles", "JSONFiles", "ProcessedFiles", "ModifiedFiles",
               "UnmodifiedFiles", "SkippedFiles", "ErrorCount"} \ {field} :
        s[f] = t[f]

\* C11 (as the specification states it): the step in which a unit ends
\* because no sidecar was found adds exactly one to SkippedFiles, leaves the
\* error counter and every other counter as they were, and is the last step
\* of the unit.
C11_NotFoundCountedSkipped ==
    [][\A w \in Workers :
          UnitEndsBy(w, "notfound") =>
             /\ stats'.SkippedFiles = stats.SkippedFiles + 1
             /\ SameCountersBut("SkippedFiles", stats, stats')
             /\ wpc[w] = "resolve"]_vars

\* C11, what the code does: the unit ends at resolution and no counter
\* changes; SkippedFiles is zero in every state.
C11_NotFoundCountsNothing ==
    /\ stats.SkippedFiles = 0
    /\ \A i \in 1..Len(finished) :
          finished[i].how = "notfound" =>
             ~finished[i].failed /\ finished[i].jsonPath = <<>>

\* C11, the case: Process has returned after the only candidate, a.jpg, had
\* no sidecar, and SkippedFiles is 0.
C11_Witness ==
    /\ Returned
    /\ dirNames = {nJpg}
    /\ faults = {}
    /\ Len(finished) = 1
    /\ finished[1].how = "notfound"
    /\ ret.stats.SkippedFiles = 0
    /\ ret.stats.ErrorCount = 0

\* The probes a resolution of mediaPath makes on the file system now, and
\* whether one of them fails with an error other than "does not exist".
ProbesNow(mediaPath) ==
    checkSupplementalData(goos, Fsys.files, Fsys.dirs, Fsys.errs, mediaPath).probes

SomeProbeFails(mediaPath) ==
    \E i \in 1..Len(ProbesNow(mediaPath)) :
        StatErr(Fsys.files, Fsys.dirs, Fsys.errs, ProbesNow(mediaPath)[i]) = "other"

\* C12 (as the specification states it): when a probe of a resolution fails
\* with an error other than "does not exist", whichever probe it is, the
\* unit ends at the resolution as an error and the error counter grows by
\* one.
C12_AnyProbeErrorIsError ==
    [][\A w \in Workers :
          (wpc[w] = "resolve" /\ wpc'[w] # "resolve"
                /\ SomeProbeFails(job[w].mediaPath)) =>
             /\ UnitEndsBy(w, "resolveerr")
             /\ stats'.ErrorCount = stats.ErrorCount + 1]_vars

\* C12, what the code does: only the error of the last probe is returned;
\* a unit that ended as an error of the resolution had it on the last of
\* all the candidates.
C12_OnlyLastProbeErrorIsError ==
    [][\A w \in Workers :
          (wpc[w] = "resolve" /\ wpc'[w] # "resolve") =>
             LET c == Candidates(goos, job[w].mediaPath)
             IN  UnitEndsBy(w, "resolveerr") <=>
                    /\ ProbesNow(job[w].mediaPath) = c
                    /\ StatErr(Fsys.files, Fsys.dirs, Fsys.errs, c[Len(c)]) = "other"]_vars

\* C12, the case: os.Stat of a.json, the first probe for a.jpg, failed with
\* another error, no later candidate exists, and the unit ended as
\* not-found with no error counted.
C12_Witness ==
    /\ Returned
    /\ dirNames = {nJpg, nSwap}
    /\ faults = {<<nSwap, "staterr">>}
    /\ Len(finished) = 1
    /\ finished[1].how = "notfound"
    /\ ret.stats.ErrorCount = 0

\* C12, the case of a later probe that matches: os.Stat of a.json failed,
\* a.jpg.json was found and applied.
C12_WitnessLaterMatch ==
    /\ Returned
    /\ dirNames = {nJpg, nSwap, nPrimary}
    /\ faults = {<<nSwap, "staterr">>}
    /\ Len(finished) = 1
    /\ finished[1].how \in {"processed", "dryrun"}
    /\ finished[1].jsonPath = PathOf(goos, nPrimary)
    /\ ret.stats.ErrorCount = 0

\* The sidecar at jsonPath holds malformed JSON.
Malformed(jsonPath) == Has(faults, Base(goos, jsonPath), "malformed")

\* A step that leaves the disk, the media files and the set of deleted
\* sidecars as they were, with no call of the applier recorded.
NothingTouched ==
    /\ disk' = disk
    /\ media' = media
    /\ deletedFiles' = deletedFiles
    /\ applied' = applied
    /\ consumed' = consumed

\* C13: a unit whose resolved sidecar is malformed JSON, with or without a
\* byte-order mark before it, ends at the parse: ParseJSON returns an error
\* and touches nothing; the step that counts it ends the unit, adds exactly
\* one to the error counter and changes no other counter, no file and no
\* set; the unit never goes on to the supplemental files or the applier, the
\* sidecar stays on disk and out of deletedFiles; and every other candidate
\* still runs to its end.
C13_MalformedSidecarIsDecodeError ==
    /\ [][\A w \in Workers :
             (wpc[w] = "parse" /\ wpc'[w] # "parse" /\ Malformed(wJson[w])) =>
                /\ wpc'[w] = "parsed"
                /\ wRes'[w].err
                /\ stats' = stats
                /\ NothingTouched]_vars
    /\ [][\A w \in Workers :
             (wpc[w] = "parsed" /\ wpc'[w] # "parsed" /\ Malformed(wJson[w])) =>
                /\ UnitEndsBy(w, "decodeerr")
                /\ stats'.ErrorCount = stats.ErrorCount + 1
                /\ SameCountersBut("ErrorCount", stats, stats')
                /\ NothingTouched]_vars
    /\ [](\A w \in Workers :
             (Busy(w) /\ wpc[w] \notin {"resolve", "parse", "parsed"}) =>
                ~Malformed(wJson[w]))
    /\ [](\A i \in 1..Len(finished) :
             (finished[i].jsonPath # <<>> /\ Malformed(finished[i].jsonPath)) =>
                /\ finished[i].how = "decodeerr"
                /\ finished[i].failed
                /\ finished[i].jsonPath \in disk
                /\ finished[i].jsonPath \notin deletedFiles
                /\ \A a \in applied : a.mediaPath # finished[i].mediaPath
                /\ \A c \in consumed : c.jsonPath # finished[i].jsonPath)
    /\ []((Returned /\ WalkSucceeded) =>
             \A i \in 1..Len(filesToProcess) :
                TimesIn(FinishedPaths, filesToProcess[i]) = 1)

\* C13, the case: a.jpg.json has a byte-order mark and malformed JSON after
\* it; the unit of a.jpg counted its one error, the unit of a.mp4 ended
\* after it, a.jpg is untouched and a.jpg.json is still there.
C13_Witness ==
    /\ Returned
    /\ dirNames = {nJpg, nMp4, nPrimary}
    /\ faults = {<<nPrimary, "bom">>, <<nPrimary, "malformed">>}
    /\ Len(finished) = 2
    /\ finished[1].how = "decodeerr"
    /\ finished[1].jsonPath = PathOf(goos, nPrimary)
    /\ finished[2].mediaPath = PathOf(goos, nMp4)
    /\ ret.stats.ErrorCount = 1
    /\ media[PathOf(goos, nJpg)] = FreshMedia
    /\ PathOf(goos, nPrimary) \in disk

\* C13, the case without a byte-order mark, the sidecar resolved by two
\* media files: both units counted an error.
C13_WitnessNoMark ==
    /\ Returned
    /\ dirNames = {nJpg, nMp4, nSwap}
    /\ faults = {<<nSwap, "malformed">>}
    /\ ret.stats.ErrorCount = 2
    /\ ret.stats.JSONFiles = 0
    /\ PathOf(goos, nSwap) \in disk

\* The record has neither a photo-taken nor a creation timestamp.
NoTimestamp(m) == m.PhotoTakenTime = <<>> /\ m.CreationTime = <<>>

\* C14: a unit whose merged record has neither timestamp ends as an apply
\* error. The applier returns an error without touching the media file or
\* the statistics; the step that counts its result ends the unit, adds
\* exactly one to the error counter, leaves ProcessedFiles, ModifiedFiles,
\* UnmodifiedFiles and every other counter as they were, the media file
\* unmodified and the sidecar on disk; no call of the applier succeeded for
\* the media file and nothing of the unit was removed.
C14_NoTimestampIsApplyError ==
    /\ [][\A w \in Workers :
             (wpc[w] = "apply" /\ wpc'[w] # "apply" /\ NoTimestamp(wMeta[w])) =>
                /\ wpc'[w] = "count"
                /\ wRes'[w].err
                /\ stats' = stats
                /\ NothingTouched]_vars
    /\ [][\A w \in Workers :
             (wpc[w] = "count" /\ wpc'[w] # "count" /\ NoTimestamp(wMeta[w])) =>
                /\ UnitEndsBy(w, "applyerr")
                /\ stats'.ErrorCount = stats.ErrorCount + 1
                /\ SameCountersBut("ErrorCount", stats, stats')
                /\ stats'.ModifiedDetails = stats.ModifiedDetails
                /\ stats'.UnmodifiedDetails = stats.UnmodifiedDetails
                /\ NothingTouched]_vars
    /\ [](\A w \in Workers :
             (wpc[w] \in {"chtimes", "remove", "mark"}) => ~NoTimestamp(wMeta[w]))
    /\ [](\A i \in 1..Len(finished) :
             finished[i].how = "applyerr" =>
                /\ finished[i].failed
                /\ \A a \in applied : a.mediaPath # finished[i].mediaPath
                /\ \A c \in consumed : c.mediaPath # finished[i].mediaPath)

\* C14, the case: a.jpg.json has no timestamp and there is no supplemental
\* file; the unit of a.jpg counted one error and nothing else, a.jpg is
\* untouched and a.jpg.json is still there.
C14_Witness ==
    /\ Returned
    /\ dirNames = {nJpg, nPrimary}
    /\ faults = {<<nPrimary, "nots">>}
    /\ Len(finished) = 1
    /\ finished[1].how = "applyerr"
    /\ ret.stats.ErrorCount = 1
    /\ ret.stats.JSONFiles = 1
    /\ ret.stats.ProcessedFiles = 0
    /\ ret.stats.ModifiedFiles = 0
    /\ ret.stats.UnmodifiedFiles = 0
    /\ media[PathOf(goos, nJpg)] = FreshMedia
    /\ PathOf(goos, nPrimary) \in disk

\* C14, the case of a video, with and without ffmpeg.
C14_WitnessVideo ==
    /\ Returned
    /\ dirNames = {nMp4, nSwap}
    /\ faults = {<<nSwap, "nots">>}
    /\ finished[1].how = "applyerr"
    /\ media[PathOf(goos, nMp4)] = FreshMedia

\* C15: when os.Remove of the sidecar fails after the metadata was applied,
\* the step changes no counter (the unit stays counted as processed, no
\* error is counted), leaves the media file as the applier left it and
\* adds nothing to deletedFiles; a path in deletedFiles is a path whose
\* removal succeeded: it is not on disk, and not a file that cannot be
\* removed.
C15_FailedRemovalIsOnlyAWarning ==
    /\ [][\A w \in Workers :
             (wpc[w] = "remove" /\ wpc'[w] # "remove"
                   /\ ~Removes(faults, disk, goos, wJson[w])) =>
                /\ UnitEndsBy(w, "processed")
                /\ ~finished'[Len(finished')].failed
                /\ stats' = stats
                /\ NothingTouched]_vars
    /\ [](\A p \in deletedFiles :
             /\ p \notin disk
             /\ ~Has(faults, Base(goos, p), "undeletable")
             /\ \E c \in consumed : c.jsonPath = p)

\* C15, the case: a.jpg.json cannot be removed; the unit of a.jpg is
\* counted as processed and modified, no error is counted, a.jpg holds the
\* date, a.jpg.json is on disk and deletedFiles is empty.
C15_Witness ==
    /\ Returned
    /\ dirNames = {nJpg, nPrimary}
    /\ faults = {<<nPrimary, "undeletable">>}
    /\ Len(finished) = 1
    /\ finished[1].how = "processed"
    /\ ret.stats.ProcessedFiles = 1
    /\ ret.stats.ModifiedFiles = 1
    /\ ret.stats.ErrorCount = 0
    /\ media[PathOf(goos, nJpg)].mtime = <<172800>>
    /\ PathOf(goos, nPrimary) \in disk
    /\ deletedFiles = {}

\* C15, the case of a sidecar another worker removed first: both units are
\* counted as processed, the path is in deletedFiles once.
C15_WitnessAlreadyGone ==
    /\ Returned
    /\ faults = {}
    /\ Len(finished) = 2
    /\ finished[1].how = "processed"
    /\ finished[2].how = "processed"
    /\ finished[1].jsonPath = finished[2].jsonPath
    /\ Cardinality(consumed) = 1
    /\ ret.stats.ErrorCount = 0

\* ------------------------------------------------------------------------
\* Properties of the command and of the run (checked under SpecMain, Spec)
\* ------------------------------------------------------------------------

Exited == cliPc = "exited"

\* C16: the process exits with status 0 or 1; with 0 exactly when the
\* directory argument was given and is a directory main can use, the walk
\* succeeded and the error counter Process returned, the final one, is 0.
\* Until it exits it has no status.
C16_ExitStatus ==
    /\ ~Exited => exitCode = NoExit
    /\ Exited =>
          /\ exitCode \in {0, 1}
          /\ exitCode = 0 <=>
                /\ dirArg = "dir"
                /\ Returned
                /\ WalkSucceeded
                /\ ret.stats.ErrorCount = 0
          /\ Returned => ret.stats.ErrorCount = stats.ErrorCount

\* C16, the case: the process exited with status 1 after Process returned
\* no error, one media file processed and one error counted.
C16_Witness ==
    /\ Exited
    /\ exitCode = 1
    /\ ret.err = "nil"
    /\ ret.stats.ProcessedFiles = 1
    /\ ret.stats.ErrorCount = 1

\* C16, the cases of status 0 after a media file was processed, of status 1
\* for an argument that is not a usable directory (each kind), and of
\* status 1 after the walk failed.
C16_WitnessSuccess ==
    Exited /\ exitCode = 0 /\ ret.stats.ProcessedFiles = 2

C16_WitnessNoDirectory ==
    Exited /\ exitCode = 1 /\ dirArg = "missing" /\ mainPc = "new"

C16_WitnessWalkFailed ==
    Exited /\ exitCode = 1 /\ Returned /\ ~WalkSucceeded /\ ret.err # "nil"

\* C17: in a dry run nothing on disk changes: the applier is never called
\* (no worker reaches it or the count of its result, no media file changes),
\* no sidecar is removed (no worker reaches the removal or the marking, the
\* files are those of the start) and deletedFiles stays empty, in every
\* state of every interleaving.
C17_DryRunChangesNothing ==
    dryRun =>
        /\ applied = {}
        /\ consumed = {}
        /\ deletedFiles = {}
        /\ disk = InitialFiles(goos, dirNames, faults)
        /\ media = InitialMedia(goos, dirNames, faults)
        /\ \A w \in Workers :
              wpc[w] \notin {"apply", "chtimes", "count", "remove", "mark"}

\* C17, the case: a dry run returned after two units, of a.jpg and a.mp4
\* with the sidecar a.json, each reported what it would modify.
C17_Witness ==
    /\ Returned
    /\ dryRun
    /\ dirNames = {nJpg, nMp4, nSwap}
    /\ faults = {}
    /\ Len(finished) = 2
    /\ finished[1].how = "dryrun"
    /\ finished[2].how = "dryrun"
    /\ ret.stats.ModifiedFiles = 2
    /\ PathOf(goos, nSwap) \in disk

\* The callback of filepath.Walk runs in this step, on the entry path with
\* the error err of os.Lstat.
WalkFnRuns ==
    /\ mainPc = "walk"
    /\ walkIdx <= Len(walkList)
    /\ <<mainPc, walkIdx>>' # <<mainPc, walkIdx>>

WalkPath == walkList[walkIdx]

WalkErr == LstatErr(goos, dirNames, faults, disk, WalkPath)

\* The walk goes on to the next entry in this step.
WalkGoesOn == mainPc' = "walk" /\ walkIdx' = walkIdx + 1

\* What Process returns after a walk that stopped: the error, and the
\* statistics with the one error of the walk.
AbortReturned ==
    (Returned /\ ~WalkSucceeded) =>
        /\ ret.err # "nil"
        /\ ret.stats = stats
        /\ ret.stats.ErrorCount = 1
        /\ ret.stats.TotalFiles = Len(filesToProcess)
              + Cardinality({i \in 1..(walkIdx - 1) :
                               /\ walkList[i] \in disk
                               /\ walkList[i] \notin Range(filesToProcess)})

\* C18 (as the specification states it): an error of the walk is passed
\* over exactly when it is "does not exist" on the path of a sidecar file
\* (a JSON file); any other stops the walk, and Process then returns the
\* error with the statistics so far and the error counted once.
C18_VanishedSidecarTolerated ==
    /\ [][(WalkFnRuns /\ WalkErr # "nil") =>
             (WalkGoesOn <=>
                 (WalkErr = "notexist" /\ HasSuffix(WalkPath, sJson)))]_vars
    /\ []AbortReturned

\* C18, what the code does: the error is passed over exactly when it is
\* "does not exist" on a path that ends in .supplemental-metadata.json.
C18_VanishedSupplementalTolerated ==
    /\ [][(WalkFnRuns /\ WalkErr # "nil") =>
             (WalkGoesOn <=>
                 (WalkErr = "notexist"
                     /\ HasSuffix(WalkPath, sSupplemental \o sJson)))]_vars
    /\ []AbortReturned

\* C18, the case: the sidecar a.jpg.json was gone when the walk came to it;
\* the walk stopped and Process returned the error, with a.jpg found and
\* not processed.
C18_Witness ==
    /\ Returned
    /\ dirNames = {nJpg, nPrimary}
    /\ faults = {<<nPrimary, "vanished">>}
    /\ ~WalkSucceeded
    /\ ret.err # "nil"
    /\ ret.stats.ErrorCount = 1
    /\ filesToProcess = <<PathOf(goos, nJpg)>>
    /\ finished = <<>>

\* C18, the case the code passes over: a.jpg.supplemental-metadata.json was
\* gone; the walk went on and Process returned no error.
C18_WitnessSupplemental ==
    /\ Returned
    /\ faults = {<<nPerFile, "vanished">>}
    /\ WalkSucceeded
    /\ ret.err = "nil"
    /\ ret.stats.ErrorCount = 0

\* The candidates the scanner has found and no worker has yet received.
Waiting == Len(filesToProcess) - Len(started)

\* C19 (as the specification states it, the bound): at no time are more
\* than 2 x workerCount candidates waiting between the scanner and the
\* workers.
C19_WaitingWithinCapacity == Waiting <= Capacity(workerCount)

\* C19, what the code does: no job is queued and no worker starts a unit
\* until the walk has ended; every candidate waits in filesToProcess. The
\* channel itself never holds more than its capacity.
C19_WalkEndsBeforeWorkStarts ==
    /\ mainPc \in {"new", "walk", "walkFailed"} =>
          /\ sendPc = "none"
          /\ jobChan = <<>>
          /\ started = <<>>
          /\ \A w \in Workers : ~Busy(w)
    /\ Len(jobChan) <= Capacity(workerCount)

\* C19, the case: the walk has come to its end with more candidates than
\* 2 x workerCount found, while every worker waits on the empty queue.
C19_Witness ==
    /\ mainPc = "walk"
    /\ walkIdx > Len(walkList)
    /\ Len(filesToProcess) = BulkSize
    /\ Waiting > Capacity(workerCount)
    /\ \A w \in Workers : wpc[w] = "idle"

\* C20 (as the specification states it): every file with an extension of
\* the supported list, in any case, is a candidate once the walk has
\* succeeded, and on a tree with nothing wrong (every sidecar decodable,
\* with a valid timestamp) no unit ends as an error of the applier.
C20_SupportedExtensionsProcessed ==
    /\ WalkSucceeded =>
          \A p \in InitialFiles(goos, dirNames, faults) :
              isSupportedMediaFile(goos, p) => p \in Range(filesToProcess)
    /\ faults = {} =>
          \A i \in 1..Len(finished) : finished[i].how # "applyerr"

\* C20, what the code does: on a tree with nothing wrong, the units that
\* end as an error of the applier are those of the .dng files, the one
\* extension of the scanner's list that the applier's lists lack.
C20_OnlyDngRejected ==
    /\ (ScannedImageExts \cup VideoExts) \ (AppliedImageExts \cup VideoExts)
          = {eDng}
    /\ faults = {} =>
          \A i \in 1..Len(finished) :
              finished[i].how = "applyerr" <=>
                 (/\ ToLower(Ext(goos, finished[i].mediaPath)) = eDng
                  /\ ~dryRun)

\* C20, the case: a.dng with the sidecar a.dng.json; the unit ended as an
\* error of the applier, a.dng untouched, a.dng.json still there.
C20_Witness ==
    /\ Returned
    /\ dirNames = {nDng, nDng \o sJson}
    /\ ~dryRun
    /\ filesToProcess = <<PathOf(goos, nDng)>>
    /\ Len(finished) = 1
    /\ finished[1].how = "applyerr"
    /\ finished[1].jsonPath = PathOf(goos, nDng \o sJson)
    /\ ret.stats.ErrorCount = 1
    /\ ret.stats.ProcessedFiles = 0
    /\ PathOf(goos, nDng \o sJson) \in disk

\* C20, the case of an extension in upper case: A.JPG was processed from
\* A.JPG.json.
C20_WitnessUpperCase ==
    /\ Returned
    /\ dirNames = {nUpperJpg, nUpperJpg \o sJson}
    /\ ~dryRun
    /\ Len(finished) = 1
    /\ finished[1].how = "processed"
    /\ ret.stats.ModifiedFiles = 1

\* ------------------------------------------------------------------------
\* Properties of the coordinates (checked under SpecMerge)
\* ------------------------------------------------------------------------

\* A fix is set when its latitude or its longitude is not zero.
FixSet(fix) == fix.Latitude # 0 \/ fix.Longitude # 0

\* C21 (as the specification states it): the coordinates written are those
\* of one single fix: the latitude and the longitude of GeoData when either
\* is not zero, else those of GeoDataAlt when either is not zero, else none;
\* the latitude and the longitude never come from two different fixes.
C21_CoordinatesFromOneFix ==
    mPc = "written" =>
        IF FixSet(mOut.GeoData)
        THEN /\ mGps.written
             /\ mGps.lat = mOut.GeoData.Latitude
             /\ mGps.lon = mOut.GeoData.Longitude
        ELSE IF FixSet(mOut.GeoDataAlt)
        THEN /\ mGps.written
             /\ mGps.lat = mOut.GeoDataAlt.Latitude
             /\ mGps.lon = mOut.GeoDataAlt.Longitude
        ELSE ~mGps.written

\* C21, the case: the primary record has a latitude in GeoData only, the
\* supplemental record a longitude in GeoDataAlt only, and the arguments
\* written pair the one with the other.
C21_Witness ==
    /\ mPc = "written"
    /\ mGps.written
    /\ mOut.GeoData.Longitude = 0
    /\ mOut.GeoDataAlt.Latitude = 0
    /\ mGps.lat = mOut.GeoData.Latitude
    /\ mGps.lon = mOut.GeoDataAlt.Longitude

\* C21, the case of a primary fix on the prime meridian: its latitude is
\* set, no longitude is set anywhere, and no coordinate is written.
C21_WitnessPrimeMeridian ==
    /\ mPc = "written"
    /\ mOut.GeoData.Latitude # 0
    /\ mOut.GeoData.Longitude = 0
    /\ mOut.GeoDataAlt.Longitude = 0
    /\ ~mGps.written

\* C21, what does hold: coordinates are written exactly when some fix has a
\* latitude and some fix has a longitude, each taken from GeoData when that
\* component of it is not zero and from GeoDataAlt otherwise.
C21_CoordinatesPerComponent ==
    mPc = "written" =>
        /\ mGps.written <=>
              /\ (mOut.GeoData.Latitude # 0 \/ mOut.GeoDataAlt.Latitude # 0)
              /\ (mOut.GeoData.Longitude # 0 \/ mOut.GeoDataAlt.Longitude # 0)
        /\ mGps.written =>
              /\ mGps.lat = IF mOut.GeoData.Latitude # 0
                            THEN mOut.GeoData.Latitude
                            ELSE mOut.GeoDataAlt.Latitude
              /\ mGps.lon = IF mOut.GeoData.Longitude # 0
                            THEN mOut.GeoData.Longitude
                            ELSE mOut.GeoDataAlt.Longitude


\* ------------------------------------------------------------------------
\* Properties of ParseJSON (checked under SpecParse)
\* ------------------------------------------------------------------------

\* The record a layer contributes: that of its file when the file is there
\* and decodes, else the empty record.
LayerRecord(n) ==
    IF jLayers[n].present /\ jLayers[n].syntaxOK
    THEN jLayers[n].meta
    ELSE ZeroMetadata

\* The value of field k in the first of the layers primary, global,
\* per-file that has it; the empty value of the primary when none has.
FirstPresent(k) ==
    IF Present(LayerRecord("primary"), k) THEN FieldOf(LayerRecord("primary"), k)
    ELSE IF Present(LayerRecord("global"), k) THEN FieldOf(LayerRecord("global"), k)
    ELSE IF Present(LayerRecord("perFile"), k) THEN FieldOf(LayerRecord("perFile"), k)
    ELSE FieldOf(LayerRecord("primary"), k)

\* The fix of the first of the layers whose latitude or longitude is set;
\* the primary's fix when none is.
FirstFix(fix) ==
    IF FixSet(LayerRecord("primary")[fix]) THEN LayerRecord("primary")[fix]
    ELSE IF FixSet(LayerRecord("global")[fix]) THEN LayerRecord("global")[fix]
    ELSE IF FixSet(LayerRecord("perFile")[fix]) THEN LayerRecord("perFile")[fix]
    ELSE LayerRecord("primary")[fix]

\* C22 (as the specification states it): the layers are merged in the order
\* primary, global, per-file, each filling only the fields still empty:
\* every field of the result holds the value of the first layer, in that
\* order, in which the field is set.
C22_EveryFieldFromFirstLayer ==
    jPc = "returned" =>
        /\ jOut.ok
        /\ \A k \in FieldKeys : FieldOf(jOut.meta, k) = FirstPresent(k)

\* C22 amended: title, description, view count, creation timestamp and
\* photo-taken timestamp each hold the value of the first of the layers
\* primary, global, per-file in which the field is set; the modification
\* timestamp is the primary's; each GPS fix is, as a whole, the fix of the
\* first of the layers whose latitude or longitude is not zero, and the
\* primary's fix when there is none.
C22_LayersMergedInOrder ==
    jPc = "returned" =>
        /\ jOut.ok
        /\ \A k \in {<<"Title">>, <<"Description">>, <<"ImageViews">>,
                      <<"CreationTime">>, <<"PhotoTakenTime">>} :
              FieldOf(jOut.meta, k) = FirstPresent(k)
        /\ jOut.meta.ModificationTime = LayerRecord("primary").ModificationTime
        /\ jOut.meta.GeoData = FirstFix("GeoData")
        /\ jOut.meta.GeoDataAlt = FirstFix("GeoDataAlt")

\* C22, the case: the field is empty in the primary and set in the global
\* and in the per-file sidecar, and the result holds the global's value.
C22_Witness ==
    /\ jPc = "returned"
    /\ LayerRecord("primary").Description = ""
    /\ LayerRecord("global").Description = "G"
    /\ LayerRecord("perFile").Description = "F"
    /\ jOut.meta.Description = "G"

\* C22, the case of a field set in the per-file sidecar only.
C22_WitnessPerFileOnly ==
    /\ jPc = "returned"
    /\ LayerRecord("primary").PhotoTakenTime = <<>>
    /\ LayerRecord("global").PhotoTakenTime = <<>>
    /\ jLayers.global.present
    /\ LayerRecord("perFile").PhotoTakenTime # <<>>
    /\ jOut.meta.PhotoTakenTime = LayerRecord("perFile").PhotoTakenTime

\* C22, the case that refutes the statement for every field: the
\* modification timestamp is set in the per-file sidecar only and the result
\* has none.
C22_WitnessModificationTime ==
    /\ jPc = "returned"
    /\ LayerRecord("primary").ModificationTime = <<>>
    /\ LayerRecord("perFile").ModificationTime # <<>>
    /\ jOut.meta.ModificationTime = <<>>


\* ------------------------------------------------------------------------
\* Properties of the duplicate marker and of the probe steps (SpecResolve)
\* ------------------------------------------------------------------------

\* The parenthesized digit runs of the final path segment of the input.
rRuns == FindAllString(BaseName(rOs, rMedia))

\* The normalized path and the marker as the specification defines them, on
\* the final path segment: the one run removed and remembered, or the path
\* unchanged and no marker.
rNormalized ==
    IF Len(rRuns) = 1
    THEN DirPrefix(rOs, rMedia) \o RemoveFirst(BaseName(rOs, rMedia), rRuns[1])
    ELSE rMedia
rMarker == IF Len(rRuns) = 1 THEN rRuns[1] ELSE <<>>

\* The step-3 probes that were made are built from the normalized path norm
\* and the marker mark.
Step3ProbesFrom(norm, mark) ==
    \A i \in 1..Len(jsonSuffixes) :
        Step3(i) <= Len(rOut.probes) =>
            rOut.probes[Step3(i)] = norm \o jsonSuffixes[i] \o mark \o sJson

\* C23 (as the specification states it): normalization looks at the final
\* path segment only. With exactly one parenthesized digit run in the file
\* name the step-3 probes are built from the path without that run and
\* re-insert it as the marker; with no run or several the probes are built
\* from the original path with no marker; runs in directory names change
\* nothing.
C23_FinalSegmentNormalized ==
    rPc = "returned" => Step3ProbesFrom(rNormalized, rMarker)

\* C23, the case: on Linux /r/I(2).jpg has one run in its file name and every
\* step-3 probe was made with the run left in the name and no marker.
C23_Witness ==
    /\ rPc = "returned"
    /\ rOs = "linux"
    /\ BaseName(rOs, rMedia) = <<"I", "(", "2", ")", ".", "j", "p", "g">>
    /\ Len(rRuns) = 1
    /\ rOut.err = "notexist"
    /\ Len(rOut.probes) = Len(Candidates(rOs, rMedia))
    /\ Step3ProbesFrom(rMedia, <<>>)
    /\ ~Step3ProbesFrom(rNormalized, rMarker)

\* C23, what does hold: the file name is what follows the last backslash of
\* the path. With a backslash in the path and exactly one run after it the
\* probes are built without the run and with the marker; with no backslash,
\* or no run or several runs after it, from the original path.
C23_NormalizedAfterBackslash ==
    rPc = "returned" =>
        IF LastIndex(rMedia, "\\") # 0 /\ Len(FindAllString(rName)) = 1
        THEN Step3ProbesFrom(rDirPart \o RemoveFirst(rName, FindAllString(rName)[1]),
                             FindAllString(rName)[1])
        ELSE Step3ProbesFrom(rMedia, <<>>)

\* C23, the case of Windows: one run in the file name, another in the
\* directory name, and the probes made without the first and with the second.
C23_WitnessWindows ==
    /\ rPc = "returned"
    /\ rOs = "windows"
    /\ FindAllString(DirPrefix(rOs, rMedia)) # <<>>
    /\ Len(rRuns) = 1
    /\ rOut.err = "notexist"
    /\ Len(rOut.probes) = Len(Candidates(rOs, rMedia))
    /\ Step3ProbesFrom(rNormalized, rMarker)
    /\ rNormalized # rMedia


\* The suffix indices, and the candidates of any step that exist.
Suffixes == 1..Len(jsonSuffixes)
rExisting ==
    {q \in {SwapCandidate(rOs, rMedia)}
              \cup Range(MarkerCandidates(rMedia))
              \cup Range(PlainCandidates(rMedia)) : rStatOK(q)}

\* C24: step 4 is tried only after the extension swap and every step-3
\* candidate failed, and probes the original media path with the same
\* suffix list in the same order; when the only existing sidecar of the
\* media file is the original path + suffix + ".json", resolution returns
\* it; and when a step-3 candidate exists, the path returned is never one
\* found by a step-4 probe.
C24_Step4LastResort ==
    rPc = "returned" =>
        /\ Step4(1) <= Len(rOut.probes) =>
              \A j \in Suffixes :
                 /\ rOut.probes[Step3(j)] = MarkerCandidates(rMedia)[j]
                 /\ ~rStatOK(MarkerCandidates(rMedia)[j])
        /\ \A i \in Suffixes :
              Step4(i) <= Len(rOut.probes) =>
                 rOut.probes[Step4(i)] = rMedia \o jsonSuffixes[i] \o sJson
        /\ \A q \in rExisting :
              (rExisting = {q} /\ q \in Range(PlainCandidates(rMedia))) =>
                 /\ rOut.err = "nil"
                 /\ rOut.jsonPath = q
        /\ rExisting3 # {} =>
              /\ rOut.err = "nil"
              /\ rOut.index <= Step3(Len(jsonSuffixes))
              /\ rOut.index = 1 \/ rOut.index \in {Step3(j) : j \in rExisting3}

\* C24, the case: C:\r\I(2).jpg, whose only sidecar is
\* I(2).jpg.supplemental-metadata.json; every step-3 probe, made without the
\* marker in the name, failed, and the second probe of step 4 found it.
C24_Witness ==
    /\ rPc = "returned"
    /\ rOs = "windows"
    /\ rName = <<"I", "(", "2", ")", ".", "j", "p", "g">>
    /\ rFiles = {rMedia \o sSupplemental \o sJson}
    /\ rDirs = {}
    /\ rOut.jsonPath = rMedia \o sSupplemental \o sJson
    /\ rOut.index = Step4(2)
    /\ Len(rOut.probes) = Step4(2)
    /\ rOut.probes[Step3(2)] # rOut.probes[Step4(2)]

\* C24, the case of a step-3 and a step-4 candidate that both exist: the
\* step-3 one is returned and no step-4 probe is made.
C24_WitnessPreferred ==
    /\ rPc = "returned"
    /\ rExisting3 # {}
    /\ \E i \in rExisting4 :
          PlainCandidates(rMedia)[i] \notin Range(MarkerCandidates(rMedia))
    /\ rOut.index \in {Step3(j) : j \in rExisting3}
    /\ Len(rOut.probes) < Step4(1)


\* ------------------------------------------------------------------------
\* Properties of the order of a unit's steps and of the statistics (Spec)
\* ------------------------------------------------------------------------

\* The ways a unit ends before its sidecar is applied.
FailureEnds == {"notfound", "resolveerr", "isdir", "decodeerr", "applyerr"}

\* The applier succeeded on the media file of worker w with the sidecar w
\* holds, in this run.
AppliedBy(w) ==
    \E a \in applied :
        a.run = run /\ a.mediaPath = job[w].mediaPath /\ a.jsonPath = wJson[w]

\* C25: the steps of one unit are strictly ordered. A sidecar is deleted
\* only by a unit whose applier returned success on its media file and whose
\* counters were updated before, in a step that marks nothing; the path is
\* added to the consumed set only by the unit that deleted it, after the
\* deletion succeeded; and a unit that ends at a failed resolution, decode
\* or apply deletes nothing, marks nothing as consumed and is not counted as
\* processed.
C25_StepsInOrder ==
    /\ [][disk' # disk =>
             \E w \in Workers :
                /\ wpc[w] = "remove"
                /\ wpc'[w] = "mark"
                /\ AppliedBy(w)
                /\ ~wRes[w].err
                /\ stats' = stats
                /\ stats.ProcessedFiles = Cardinality(applied)
                /\ wJson[w] \in disk
                /\ disk' = disk \ {wJson[w]}
                /\ deletedFiles' = deletedFiles
                /\ consumed' = consumed]_vars
    /\ [][(deletedFiles' # deletedFiles \/ consumed' # consumed) =>
             \E w \in Workers :
                /\ wpc[w] = "mark"
                /\ UnitEndsBy(w, "processed")
                /\ AppliedBy(w)
                /\ wJson[w] \notin disk
                /\ wJson[w] \notin deletedFiles
                /\ disk' = disk
                /\ stats' = stats
                /\ deletedFiles' = deletedFiles \cup {wJson[w]}
                /\ consumed' = consumed \cup
                      {[run |-> run, mediaPath |-> job[w].mediaPath,
                        jsonPath |-> wJson[w]]}]_vars
    /\ [][\A w \in Workers :
             (UnitEnds(w) /\ finished'[Len(finished')].how \in FailureEnds) =>
                /\ wpc[w] \in {"resolve", "parsed", "count"}
                /\ wpc[w] \in {"parsed", "count"} => wRes[w].err
                /\ disk' = disk
                /\ media' = media
                /\ deletedFiles' = deletedFiles
                /\ consumed' = consumed
                /\ applied' = applied
                /\ ~AppliedBy(w)
                /\ stats'.JSONFiles = stats.JSONFiles
                /\ stats'.ProcessedFiles = stats.ProcessedFiles
                /\ stats'.ModifiedFiles = stats.ModifiedFiles
                /\ stats'.UnmodifiedFiles = stats.UnmodifiedFiles]_vars
    /\ [](\A w \in Workers :
             /\ wpc[w] \in {"remove", "mark"} =>
                   (AppliedBy(w) /\ ~wRes[w].err /\ ~dryRun)
             /\ wpc[w] = "mark" => wJson[w] \notin disk
             /\ wpc[w] \in {"resolve", "parse", "global", "perfile", "parsed",
                            "report", "apply", "chtimes", "count"} =>
                   /\ \A a \in applied : a.mediaPath # job[w].mediaPath
                   /\ \A c \in consumed : c.mediaPath # job[w].mediaPath)
    /\ [](\A c \in consumed :
             /\ c.jsonPath \in deletedFiles
             /\ c.jsonPath \notin disk
             /\ \E a \in applied :
                   a.mediaPath = c.mediaPath /\ a.jsonPath = c.jsonPath)
    /\ [](\A i \in 1..Len(finished) :
             finished[i].how \in FailureEnds =>
                /\ \A a \in applied : a.mediaPath # finished[i].mediaPath
                /\ \A c \in consumed : c.mediaPath # finished[i].mediaPath)

\* C25, the case: the unit of a.jpg applied a.jpg.json, was counted, deleted
\* the sidecar and marked it as consumed, in that order.
C25_Witness ==
    /\ Returned
    /\ \E i \in 1..Len(finished) :
          /\ finished[i].how = "processed"
          /\ [run |-> run, mediaPath |-> finished[i].mediaPath,
              jsonPath |-> finished[i].jsonPath] \in consumed
          /\ finished[i].jsonPath \in deletedFiles
          /\ finished[i].jsonPath \notin disk
    /\ ret.stats.ProcessedFiles = Cardinality(applied)
    /\ ret.stats.ProcessedFiles >= 1

\* C25, between two steps: a worker has removed the sidecar and has not yet
\* marked it, the counters of its unit written before.
C25_WitnessRemovedNotMarked ==
    \E w \in Workers :
        /\ wpc[w] = "mark"
        /\ wJson[w] \notin disk
        /\ deletedFiles = {}
        /\ stats.ProcessedFiles >= 1

\* C25, the case of a failure: the applier failed on the media file, and the
\* sidecar is still there, not consumed, the unit not counted as processed.
C25_WitnessApplyFailed ==
    /\ Returned
    /\ Len(finished) = 1
    /\ finished[1].how = "applyerr"
    /\ finished[1].jsonPath \in disk
    /\ consumed = {}
    /\ deletedFiles = {}
    /\ ret.stats.JSONFiles = 1
    /\ ret.stats.ProcessedFiles = 0
    /\ ret.stats.ErrorCount = 1


\* The units that ended in one of the ways of H, and the workers at one of
\* the steps of P.
EndedBy(H) == Cardinality({i \in 1..Len(finished) : finished[i].how \in H})
WorkersAt(P) == Cardinality({w \in Workers : wpc[w] \in P})

\* The walk failed and Process has counted its error (lines 115-117).
WalkErrorCounted == mainPc \in {"waitErr", "returned"} /\ ~WalkSucceeded

\* C26: the statistics are updated atomically and stay consistent. In every
\* state ProcessedFiles = ModifiedFiles + UnmodifiedFiles, each detail list
\* is as long as its counter, and ProcessedFiles <= JSONFiles; no increment
\* is lost: each counter is the number of units that passed its statement;
\* and a step of a unit adds one to at most one of ProcessedFiles and
\* ErrorCount, a whole unit to at most one of them.
C26_StatisticsConsistent ==
    /\ [](mainPc # "new" =>
             /\ stats.ProcessedFiles = stats.ModifiedFiles + stats.UnmodifiedFiles
             /\ Len(stats.ModifiedDetails) = stats.ModifiedFiles
             /\ Len(stats.UnmodifiedDetails) = stats.UnmodifiedFiles
             /\ stats.ProcessedFiles <= stats.JSONFiles
             /\ stats.ProcessedFiles =
                   EndedBy({"dryrun", "processed"})
                      + WorkersAt({"remove", "mark"})
             /\ stats.JSONFiles =
                   EndedBy({"dryrun", "applyerr", "processed"})
                      + WorkersAt({"report", "apply", "chtimes", "count",
                                   "remove", "mark"})
             /\ stats.ErrorCount =
                   EndedBy({"resolveerr", "decodeerr", "applyerr"})
                      + (IF WalkErrorCounted THEN 1 ELSE 0)
             /\ stats.ProcessedFiles + stats.ErrorCount
                   <= Len(started) + (IF WalkErrorCounted THEN 1 ELSE 0))
    /\ [][\A w \in Workers : (Busy(w) /\ wpc'[w] # wpc[w]) =>
             \/ /\ stats'.ProcessedFiles = stats.ProcessedFiles + 1
                /\ stats'.ErrorCount = stats.ErrorCount
             \/ /\ stats'.ProcessedFiles = stats.ProcessedFiles
                /\ stats'.ErrorCount = stats.ErrorCount + 1
             \/ /\ stats'.ProcessedFiles = stats.ProcessedFiles
                /\ stats'.ErrorCount = stats.ErrorCount]_vars

\* C26, the case: two workers counted at the same time, one unit modified
\* its file, one found it up to date, and the lists hold one line each.
C26_Witness ==
    /\ Returned
    /\ ret.stats.JSONFiles = 2
    /\ ret.stats.ProcessedFiles = 2
    /\ ret.stats.ModifiedFiles = 1
    /\ ret.stats.UnmodifiedFiles = 1
    /\ Len(ret.stats.ModifiedDetails) = 1
    /\ Len(ret.stats.UnmodifiedDetails) = 1

\* C26, the case of a unit counted as an error beside a unit counted as
\* processed.
C26_WitnessError ==
    /\ Returned
    /\ ret.stats.ProcessedFiles = 1
    /\ ret.stats.ErrorCount = 1
    /\ ret.stats.JSONFiles = 2
    /\ Len(finished) = 2


\* ------------------------------------------------------------------------
\* Properties of the sidecars of a run and of the aborted walk (Spec)
\* ------------------------------------------------------------------------

\* C27 (as the specification states it): in a run that is not a dry run a
\* sidecar is applied to at most one media file; of two candidates that
\* resolve to the same sidecar one is applied and the other ends
\* not-found, under every interleaving.
C27_SidecarAppliedToOneFile ==
    /\ \A a \in applied : \A b \in applied :
          (a.run = b.run /\ a.jsonPath = b.jsonPath) => a.mediaPath = b.mediaPath
    /\ \A i \in 1..Len(finished) : \A j \in 1..Len(finished) :
          ( /\ i # j
            /\ ~dryRun
            /\ finished[i].how = "processed"
            /\ finished[j].jsonPath = finished[i].jsonPath )
          => finished[j].how = "notfound"

\* C27, the case: a.jpg and a.mp4 both resolve to a.json; two workers
\* applied it at the same time and both media files hold its date.
C27_Witness ==
    /\ Returned
    /\ ~dryRun
    /\ dirNames = {nJpg, nMp4, nSwap}
    /\ faults = {}
    /\ \E a \in applied : \E b \in applied :
          /\ a.mediaPath = PathOf(goos, nJpg)
          /\ b.mediaPath = PathOf(goos, nMp4)
          /\ a.jsonPath = PathOf(goos, nSwap)
          /\ b.jsonPath = PathOf(goos, nSwap)
          /\ a.modified /\ b.modified
    /\ media[PathOf(goos, nJpg)].mtime = media[PathOf(goos, nMp4)].mtime
    /\ media[PathOf(goos, nJpg)].mtime # NoTime

\* C27, the case the specification describes, reached when the units do not
\* overlap: the sidecar is applied to a.jpg and the unit of a.mp4 ends
\* not-found.
C27_WitnessInTurn ==
    /\ Returned
    /\ ~dryRun
    /\ dirNames = {nJpg, nMp4, nSwap}
    /\ faults = {}
    /\ Len(finished) = 2
    /\ finished[1].how = "processed"
    /\ finished[1].jsonPath = PathOf(goos, nSwap)
    /\ finished[2].how = "notfound"
    /\ media[PathOf(goos, nMp4)] = FreshMedia

\* The walk returned an error: Process is on its way out with it.
Aborted ==
    \/ mainPc \in {"walkFailed", "waitErr"}
    \/ Returned /\ ret.err # "nil"

\* C28: when the walk aborts with a fatal error, no media file has been or
\* will be processed: no candidate is ever put on the queue, no worker
\* works on one, no sidecar is deleted and no media file is modified, and
\* the statistics returned have JSONFiles, ProcessedFiles, ModifiedFiles,
\* UnmodifiedFiles and SkippedFiles 0 and ErrorCount 1.
C28_AbortProcessesNothing ==
    Aborted =>
        /\ sendPc = "none"
        /\ jobChan = <<>>
        /\ started = <<>>
        /\ finished = <<>>
        /\ \A w \in Workers : ~Busy(w) /\ job[w] = NoJob
        /\ applied = {}
        /\ consumed = {}
        /\ deletedFiles = {}
        /\ disk = InitialFiles(goos, dirNames, faults)
        /\ media = InitialMedia(goos, dirNames, faults)
        /\ stats.JSONFiles = 0
        /\ stats.ProcessedFiles = 0
        /\ Returned =>
              /\ ret.stats.JSONFiles = 0
              /\ ret.stats.ProcessedFiles = 0
              /\ ret.stats.ModifiedFiles = 0
              /\ ret.stats.UnmodifiedFiles = 0
              /\ ret.stats.SkippedFiles = 0
              /\ ret.stats.ErrorCount = 1
              /\ ret.stats.ModifiedDetails = <<>>
              /\ ret.stats.UnmodifiedDetails = <<>>

\* C28, the case: the walk found a.jpg and its sidecar, failed on a later
\* entry, and Process returned the error with both files as they were.
C28_Witness ==
    /\ Returned
    /\ ret.err # "nil"
    /\ ~dryRun
    /\ PathOf(goos, nJpg) \in Range(filesToProcess)
    /\ PathOf(goos, nPrimary) \in disk
    /\ ret.stats.TotalFiles = 2
    /\ ret.stats.ErrorCount = 1
    /\ media[PathOf(goos, nJpg)] = FreshMedia
    /\ \A w \in Workers : wpc[w] = "done"

====
